---- MODULE Spec2Model ----
(***************************************************************************)
(* A model of the IO.js action combinator kernel (src/unnamed/part_000).   *)
(*                                                                         *)
(* Actions, continuations and error objects are closures; a closure is a   *)
(* record whose field t names the function it was made by and whose other  *)
(* fields are the variables it closes over.  The JavaScript call stack is  *)
(* the sequence `stack` of operations still to be performed by the running *)
(* turn of the event loop: a pending M.call, the invocation of an action,  *)
(* the end of a try block, or an exception in flight.  `ticks` is the      *)
(* nextTick queue and `pending` the callbacks held by the outside world.   *)
(***************************************************************************)
EXTENDS Integers, Sequences, FiniteSets, TLC

VARIABLES scn, stack, ticks, pending, depth, log,
          atom, conds, submitted, overlap, gens, chans, joins, kids, cells

vars == <<scn, stack, ticks, pending, depth, log,
          atom, conds, submitted, overlap, gens, chans, joins, kids, cells>>

\* ExM.maxdepth and ExM.kBufferCapacity
maxdepth == 50
kBufferCapacity == 8

\* Bounds of the model.
MaxLog == 12
MaxSubmits == 10
GenLen == 5
MaxBranches == 3
MaxCallers == 3

-----------------------------------------------------------------------------
(* Values *)

Undef == [t |-> "undefined"]
V(s) == [t |-> "val", v |-> s]
TypeError == V("TypeError")

\* A user function: n is its declared arity, id its name in the log, do what
\* its body does and v, w the literals its body mentions.
Fn(n, id, do, v, w) == [t |-> "fn", n |-> n, id |-> id, do |-> do, v |-> v, w |-> w]

-----------------------------------------------------------------------------
(* Orchestrators.  IO.Ex is orchestrator 0 and its depth is `depth`; kids   *)
(* holds the orchestrators made by Object.create(M), numbered from 1, each  *)
(* with its prototype and, once it has been assigned, a depth of its own.   *)

IO_Ex == 0

\* In a pending M.call: M is the orchestrator the calling function was given.
Here == 0 - 1

\* The orchestrator of the innermost M.call still on the stack s.
RECURSIVE FrameM(_)
FrameM(s) ==
    IF s = <<>> THEN IO_Ex
    ELSE IF s[1].op \in {"try", "tryLog"} THEN s[1].m
    ELSE FrameM(Tail(s))

\* The M of the running function.
CurM == FrameM(stack)

\* Object.create(M)
Object_create(M) == [proto |-> M, own |-> FALSE, depth |-> 0]

\* M.depth, looked up along the prototype chain.
RECURSIVE DepthOf(_)
DepthOf(M) ==
    IF M = IO_Ex THEN depth
    ELSE IF kids[M].own THEN kids[M].depth
    ELSE DepthOf(kids[M].proto)

-----------------------------------------------------------------------------
(* Closures of the library *)

M_drain == [t |-> "drain"]
passRef == [t |-> "pass"]
failRef == [t |-> "fail"]

autobranch(action, success, failure) ==
    [t |-> "autobranch", m |-> CurM,
     action |-> action, success |-> success, failure |-> failure]

autodrain(action) == autobranch(action, M_drain, M_drain)

seq(a, b) == [t |-> "seq", a |-> a, b |-> b]

branch(a, success, failure) == [t |-> "branch", a |-> a, success |-> success, failure |-> failure]

sendKV(kvpairs, action) == [t |-> "sendKV", kvpairs |-> kvpairs, action |-> action]

bindInput(input, action) == [t |-> "bindInput", input |-> input, action |-> action]

wrapFn(fn) == [t |-> "dynamic_", fn |-> fn]
wrapAsync3(fn) == [t |-> "wrapAsync3", fn |-> fn]
wrapAsync2(fn) == [t |-> "wrapAsync2", fn |-> fn]

autowrap(action) ==
    IF action.t = "fn"
    THEN CASE action.n = 4 -> [t |-> "native", fn |-> action]
           [] action.n = 1 -> wrapFn(action)
           [] action.n = 3 -> wrapAsync3(action)
           [] action.n = 2 -> wrapAsync2(action)
    ELSE action

chain_iter(actions, i, success) ==
    IF i > Len(actions) THEN success
    ELSE [t |-> "chain_iter", actions |-> actions, i |-> i, success |-> success]

chain(actions) ==
    LET wrapped == [k \in 1..Len(actions) |-> autowrap(actions[k])]
    IN  CASE Len(actions) = 0 -> passRef
          [] Len(actions) = 1 -> wrapped[1]
          [] OTHER -> [t |-> "chain", actions |-> wrapped]

autoseq(action) == IF action.t = "array" THEN chain(action.items) ELSE autowrap(action)

Array(items) == [t |-> "array", items |-> items]

IO_do(actions) == chain(actions)

IO_branch(action, success, failure) == branch(autowrap(action), autowrap(success), autowrap(failure))

IO_raise(err) == [t |-> "raise_", err |-> err]

IO_forgive == [t |-> "forgive"]

IO_catch(onfail) == [t |-> "catch_", onfail |-> autowrap(onfail)]

IO_finally(cleanup, action) ==
    [t |-> "finally_", cleanup |-> autowrap(cleanup), action |-> autoseq(action)]

IO_add(value) == [t |-> "add_", value |-> value]

IO_supply(value) == [t |-> "supply_", value |-> value]

\* The two closures of one IO.atomic instance; id names the instance's
\* variables arr, busy and pauseStream.
IO_atomic(id, action) == [t |-> "doit", id |-> id, action |-> autoseq(action)]

doneRef(id, action) == [t |-> "done", id |-> id, action |-> action]

\* IO.pipeline(actions): each action made atomic, the k-th with the
\* variables of instance k.
IO_pipeline(actions) == IO_do([k \in 1..Len(actions) |-> IO_atomic(k, actions[k])])

IOError(error, input, success, failure) ==
    [t |-> "IOError", error |-> error, input |-> input,
     resume |-> autobranch(success, M_drain, failure),
     rollback |-> autodrain(failure),
     restart |-> Undef,
     success |-> success, failure |-> failure]

IOPauseCondition(ref) == [t |-> "PauseCondition", ref |-> ref]

\* IO.delay(ms)
IO_delay(ms) == [t |-> "delay_", ms |-> ms]

\* IO.timeout(ms, action, ontimeout); ontimeout is called as it is, with
\* (M, input, success, failure), so a function given here is one that takes
\* these four.
IO_timeout(ms, action, ontimeout) ==
    [t |-> "timeout_", ms |-> ms, action |-> autoseq(action),
     ontimeout |-> IF ontimeout.t = "fn" THEN [t |-> "native", fn |-> ontimeout] ELSE ontimeout]

\* The continuation invocation j of timeout_ gives its action, and the
\* function it gives ontimeout as input.
timeout_done(j, m, success, failure) ==
    [t |-> "timeout_done", j |-> j, m |-> m, success |-> success, failure |-> failure]

restartFn(m, self, input, success, failure) ==
    [t |-> "restartFn", m |-> m, self |-> self, input |-> input,
     success |-> success, failure |-> failure]

\* IO.sync(N): the two actions and the variables they share.
sync_now_ == [t |-> "sync_now_"]

sync_later_ == [t |-> "sync_later_"]

IO_sync(N) ==
    [countDown |-> IF N = 0 THEN 1 ELSE N, followon |-> Undef,
     now |-> sync_now_, later |-> sync_later_]

\* IO.interruption(reason): the two actions; they share the table handlers
\* and the counter newid.
interruption_mark(reason) == [t |-> "mark", reason |-> reason]

interruption_interrupt == [t |-> "interrupt"]

IO_interruption(reason) ==
    [handlers |-> <<>>, newid |-> 0,
     mark |-> interruption_mark(reason), interrupt |-> interruption_interrupt]

\* {reason: reason, input: input}
Interruption(reason, input) == [t |-> "interruption", reason |-> reason, input |-> input]

\* IO.interruptible(interruptible).  Its first statement reads the variable
\* cont, which no file of the library declares: the read throws a
\* ReferenceError unless the host has defined a global of that name.
ReferenceError(name) == [t |-> "ReferenceError", name |-> name]

\* oninterrupt(handler), on the value of the variable interrupt.
oninterrupt(interrupt, handler) ==
    [t |-> "oninterrupt", handler |-> handler, oldInterrupt |-> interrupt]

\* The variable interrupt after a builder has installed handlers in order.
RECURSIVE Installed(_, _)
Installed(interrupt, handlers) ==
    IF handlers = <<>> THEN interrupt
    ELSE Installed(oninterrupt(interrupt, Head(handlers)), Tail(handlers))

interrupt_ == [t |-> "interrupt_"]

\* cont is Undef where no global of that name exists; a builder is the
\* action it returns and the handlers it installs before it returns.
IO_interruptible(cont, builder) ==
    IF cont = Undef
    THEN [thrown |-> ReferenceError("cont"), action |-> Undef, interrupt |-> Undef]
    ELSE [thrown |-> Undef, action |-> builder.action,
          interrupt |-> Installed(cont, builder.handlers)]

\* IO.clock(period_ms): clock_ and tick share the variables tickNumber and
\* ticking; tickFn is the default, which returns the tick number.
IO_clock(period_ms) == [t |-> "clock_", period_ms |-> period_ms]

tick(period_ms) == [t |-> "tick", period_ms |-> period_ms]

Null == [t |-> "null"]

\* IO.debounce(ms): debounce_ and the variables lastRequestTime and
\* lastRequestTimer.
IO_debounce(ms) == [t |-> "debounce_", ms |-> ms]

\* send(input, action): action run with the given input instead of its own.
send(input, action) == [t |-> "send", input |-> input, action |-> action]

\* IO.try(action, onfail)
IO_try(action, onfail) ==
    [t |-> "try_", action |-> autoseq(action), onfail |-> autowrap(onfail)]

\* IO.alt(actions)
alt_impl(actions) ==
    IF Len(actions) = 0 THEN IO_raise(V("alt")) ELSE [t |-> "alt_", actions |-> actions]

IO_alt(actions) == alt_impl([k \in 1..Len(actions) |-> autowrap(actions[k])])

\* The two actions of the channel IO.chan() returns, and the function
\* recv_chan parks in waiters.
send_chan == [t |-> "send_chan"]
recv_chan == [t |-> "recv_chan"]
waiter(m, success, failure) == [t |-> "waiter", m |-> m, success |-> success, failure |-> failure]

\* IO.map(fn), and the function fork maps over the output of branch i.
IO_map(fn) == [t |-> "map_", fn |-> fn]

indexer(i) == [t |-> "indexer", i |-> i]

\* The action IO.fork(actions) returns.
IO_fork(actions) ==
    [t |-> "fork_", actions |-> [k \in 1..Len(actions) |-> autowrap(actions[k])]]

\* IO.any(actions)
any_impl(actions) ==
    IF Len(actions) = 0 THEN IO_raise(V("IO.any has no actions to run"))
    ELSE [t |-> "any_", actions |-> actions]

IO_any(actions) == any_impl([k \in 1..Len(actions) |-> autowrap(actions[k])])

\* The closures of one IO.gen instance; g names the instance's variables
\* paused and genCount and the position i of its array enumerator.
IO_gen(g) == [t |-> "gen_", g |-> g]

\* The action IO.spray(array) returns.
IO_spray(array) == [t |-> "spray", array |-> array]

\* The values 1..n as an array.
Values(n) == [k \in 1..n |-> V(ToString(k))]

-----------------------------------------------------------------------------
(* Operations on the stack *)

\* M.call(a, in, s, f) on the orchestrator m, and on the M of the caller.
CallOn(m, a, in, s, f) == [op |-> "call", m |-> m, a |-> a, in |-> in, s |-> s, f |-> f]
Call(a, in, s, f) == CallOn(Here, a, in, s, f)
Apply(a, in, s, f) == [op |-> "apply", a |-> a, in |-> in, s |-> s, f |-> f]
Try(m, in, s, f) == [op |-> "try", m |-> m, in |-> in, s |-> s, f |-> f]
TryFn(f) == [op |-> "tryFn", f |-> f]
TryLog(m) == [op |-> "tryLog", m |-> m]
Throw(e) == [op |-> "throw", e |-> e]

IsMarker(o) == o.op \in {"try", "tryFn", "tryLog"}

\* Returning out of try blocks that completed normally.
RECURSIVE Norm(_)
Norm(s) == IF s # <<>> /\ IsMarker(s[1]) THEN Norm(Tail(s)) ELSE s

Head1 == stack[1]
Rest == Tail(stack)
Applying(tag) == stack # <<>> /\ Head1.op = "apply" /\ Head1.a.t = tag

OrDrain(c) == IF c.t = "undefined" THEN M_drain ELSE c

\* What is logged of a value.
RECURSIVE Summary(_)
Summary(x) ==
    IF x.t \in {"IOError", "object"}
    THEN [t |-> x.t, error |-> x.error, input |-> Summary(x.input)]
    ELSE IF x.t = "results"
    THEN [t |-> x.t, at |-> [i \in DOMAIN x.at |-> Summary(x.at[i])],
          extra |-> Summary(x.extra)]
    ELSE IF x.t = "val" THEN x ELSE [t |-> x.t]

\* obj[name] for the property names the library and the handlers read.
Prop(obj, name) ==
    IF obj.t \in {"IOError", "object"}
    THEN CASE name = "input" -> obj.input
           [] name = "resume" -> obj.resume
           [] name = "rollback" -> obj.rollback
           [] name = "restart" -> obj.restart
    ELSE Undef

\* f(arg) for a JavaScript function value f made by autobranch; calling
\* anything else is a TypeError.
CallFn(f, arg) ==
    CASE f.t = "autobranch" -> <<CallOn(f.m, f.action, arg, f.success, f.failure)>>
      [] f.t = "onresume_cb" -> <<[op |-> "invoke", f |-> f]>>
      [] f.t = "restartFn" -> <<CallOn(f.m, f.self, f.input, f.success, f.failure)>>
      [] OTHER -> <<Throw(TypeError)>>

Logged(id, x) == IF Len(log) < MaxLog THEN Append(log, [id |-> id, in |-> Summary(x)]) ELSE log

-----------------------------------------------------------------------------
(* The bodies of the library's functions.  Each gives the operations the    *)
(* function performs, in order, when invoked with (M, input, success,      *)
(* failure); self is the closure invoked.                                  *)

drain(input, success, failure) == <<>>

pass(input, success, failure) ==
    IF success.t # "undefined" THEN <<Call(success, input, M_drain, failure)>> ELSE <<>>

\* fail starting the success continuation, as pass does.
fail_asPass(input, success, failure) ==
    IF success.t # "undefined" THEN <<Call(success, input, M_drain, failure)>> ELSE <<>>

fail(input, success, failure) ==
    IF failure.t # "undefined" THEN <<Call(failure, input, M_drain, M_drain)>> ELSE <<>>

seq_(self, input, success, failure) ==
    <<Call(self.a, input, seq(self.b, success), failure)>>

branch_(self, input, succ2, fail2) ==
    <<Call(self.a, input, self.success, self.failure)>>

chain_(self, input, success, failure) ==
    <<Call(chain_iter(self.actions, 1, success), input, M_drain, failure)>>

chain_iter_(self, input, success_, failure) ==
    <<Call(self.actions[self.i], input, chain_iter(self.actions, self.i + 1, self.success), failure)>>

\* raise that does not capture the continuation of the raise site.
raise_noResume(self, input, success, failure) ==
    <<Call(failure, IOError(self.err, input, M_drain, failure), M_drain, M_drain)>>

raise_(self, input, success, failure) ==
    <<Call(failure, IOError(self.err, input, success, failure), M_drain, M_drain)>>

\* forgive passing on the error instead of the input stored in it.
forgive_keepsError(err, success, failure) ==
    IF err.t = "undefined" THEN <<Throw(TypeError)>>
    ELSE <<Call(success, err, M_drain, failure)>>

forgive(err, success, failure) ==
    IF err.t = "undefined" THEN <<Throw(TypeError)>>
    ELSE <<Call(success, Prop(err, "input"), M_drain, failure)>>

\* input[key] = kvpairs[key] for the keys of kvpairs.
SetKeys(input, kvpairs) ==
    IF input.t \in {"IOError", "object"}
    THEN [key \in DOMAIN input \cup DOMAIN kvpairs |->
            IF key \in DOMAIN kvpairs THEN kvpairs[key] ELSE input[key]]
    ELSE input

sendKV_(self, input, success, failure) ==
    IF input.t = "undefined" THEN <<Throw(TypeError)>>
    ELSE <<Call(self.action, SetKeys(input, self.kvpairs), success, failure)>>

\* catch with the two continuations of the handler exchanged.
catch_swapped(self, input, start, traceback) ==
    LET restartCB == autobranch(self, start, traceback)
        restartAct == branch(self, start, traceback)
        withRestart == sendKV([restart |-> restartCB], self.onfail)
    IN  <<Call(start, input, M_drain, branch(withRestart, traceback, restartAct))>>

\* catch whose restart enters the sequence without the catch point.
catch_noReinstall(self, input, start, traceback) ==
    LET restartCB == autobranch(start, M_drain, traceback)
        restartAct == branch(start, M_drain, traceback)
        withRestart == sendKV([restart |-> restartCB], self.onfail)
    IN  <<Call(start, input, M_drain, branch(withRestart, restartAct, traceback))>>

catch_(self, input, start, traceback) ==
    LET restartCB == autobranch(self, start, traceback)
        restartAct == branch(self, start, traceback)
        withRestart == sendKV([restart |-> restartCB], self.onfail)
    IN  <<Call(start, input, M_drain, branch(withRestart, restartAct, traceback))>>

bindInput_(self, newInput, success, failure) ==
    <<Call(self.action, self.input,
           [t |-> "bindInput_k", success |-> success, newInput |-> newInput],
           failure)>>

bindInput_k(self, input, succ_, fail_) ==
    <<Call(self.success, self.newInput, succ_, fail_)>>

\* copyKeys(from, {}): the own enumerable properties of from, as a plain
\* object.
copyKeys(from) ==
    IF from.t \in {"IOError", "object"}
    THEN [from EXCEPT !.t = "object"]
    ELSE [t |-> "object", error |-> Undef, input |-> Undef, resume |-> Undef,
          rollback |-> Undef, restart |-> Undef, success |-> Undef, failure |-> Undef]

\* add that lets the keys of the input win over the keys added.
add_keepsInput(self, input, success, failure) ==
    IF input.t = "undefined" THEN <<Throw(TypeError)>>
    ELSE LET merged == IF input.t \in {"IOError", "object"}
                       THEN copyKeys(input)
                       ELSE [copyKeys(input) EXCEPT !.resume = self.value.resume]
         IN  <<Call(success, merged, M_drain, failure)>>

add_(self, input, success, failure) ==
    IF input.t = "undefined" THEN <<Throw(TypeError)>>
    ELSE LET merged == [copyKeys(input) EXCEPT !.resume = self.value.resume]
         IN  <<Call(success, merged, M_drain, failure)>>

supply_(self, input, success, failure) ==
    <<Call(success, self.value, M_drain, failure)>>

\* finally that runs the cleanup on the success path only.
finally_noCleanupOnFailure(self, input, success, failure) ==
    LET cleanupB == bindInput(input, self.cleanup)
        exceptional == seq(IO_add([resume |-> autobranch(self, success, failure)]), failure)
    IN  <<Call(self.action, input, seq(cleanupB, success), exceptional)>>

finally_(self, input, success, failure) ==
    LET cleanupB == bindInput(input, self.cleanup)
        exceptional == seq(IO_add([resume |-> autobranch(self, success, failure)]), failure)
    IN  <<Call(self.action, input, seq(cleanupB, success), seq(cleanupB, exceptional))>>

-----------------------------------------------------------------------------
(* User code.  A user function's body is one of a few shapes, named by its *)
(* field do; cb and eb are the callback and errback it was handed (absent  *)
(* for the one-argument form).                                             *)

AsyncDo == {"async", "asyncFail", "asyncAny", "later", "laterFail"}

\* The calls the body makes before it returns, and the exception it throws.
UserBody(fn, input, cb, eb) ==
    CASE fn.do = "throw" -> <<Throw(V(fn.v))>>
      [] fn.do = "resume" -> CallFn(Prop(input, "resume"), V(fn.v))
      [] fn.do = "rollback" -> CallFn(Prop(input, "rollback"), V(fn.v))
      [] fn.do = "rollbackErr" -> CallFn(Prop(input, "rollback"), input)
      [] fn.do = "restart" -> CallFn(Prop(input, "restart"), V(fn.v))
      [] fn.do = "cb" -> CallFn(cb, V(fn.v))
      [] fn.do = "cbIn" -> CallFn(cb, input)
      [] fn.do = "asyncFirst" -> IF input = V("1") THEN <<>> ELSE CallFn(cb, input)
      [] fn.do = "eb" -> CallFn(eb, V(fn.v))
      [] fn.do = "ebIn" -> CallFn(eb, input)
      [] fn.do = "retryOnce" -> IF cells.counter = 0 THEN CallFn(input, Undef) ELSE <<>>
      [] OTHER -> <<>>

\* The value a one-argument function returns.
UserRet(fn, input) ==
    CASE fn.do = "ret" -> V(fn.v)
      [] fn.do = "id" -> input
      [] fn.do = "raise" -> IO_raise(V(fn.v))
      [] fn.do = "raiseUnless" -> IF input = V(fn.w) THEN input ELSE IO_raise(V(fn.v))
      [] OTHER -> Undef

IsFunction(x) == x.t \notin {"undefined", "val", "IOError", "object", "PauseCondition", "array"}

\* The invocations of the atomic action "a" that have started and have not
\* yet called back.
InFlight == Cardinality({i \in 1..Len(pending) : pending[i].fn.id = "a"})

\* What running a user function leaves behind besides the calls it makes.
UserEffects(fn, input, cb, eb) ==
    /\ log' = Logged(fn.id, input)
    /\ pending' = IF fn.do \in AsyncDo \/ (fn.do = "asyncFirst" /\ input = V("1"))
                  THEN Append(pending, [fn |-> fn, in |-> input, cb |-> cb, eb |-> eb])
                  ELSE pending
    /\ overlap' = (overlap \/ (fn.id = "a" /\ InFlight > 0))
    /\ cells' = IF fn.do = "retryOnce" THEN [cells EXCEPT !.counter = @ + 1] ELSE cells

dynamic_(self, input, success, failure) ==
    LET result == UserRet(self.fn, input)
    IN  UserBody(self.fn, input, Undef, Undef)
        \o (IF result.t = "undefined" THEN <<>>
            ELSE IF IsFunction(result)
                 THEN <<Call(autowrap(result), input, success, failure)>>
                 ELSE <<Call(success, result, M_drain, failure)>>)
        \o <<TryFn(failure)>>

wrapAsync3_(self, input, success, failure) ==
    <<Call([t |-> "wrapAsync3_fn", fn |-> self.fn], input, success, failure)>>

wrapAsync2_(self, input, success, failure) ==
    <<Call([t |-> "wrapAsync2_fn", fn |-> self.fn], input, success, failure)>>

\* function (input) { M.call(success, input, M.drain, failure); }
Callback(success, failure) == autobranch(success, M_drain, failure)
\* function (err) { M.call(failure, err, M.drain, M.drain); }
Errback(failure) == autobranch(failure, M_drain, M_drain)

wrapAsync3_fn(self, input, success, failure) ==
    UserBody(self.fn, input, Callback(success, failure), Errback(failure))

\* The two-argument form does not see the input.
wrapAsync2_fn(self, input, success, failure) ==
    UserBody(self.fn, Undef, Callback(success, failure), Errback(failure))

\* A user action in the four-argument form: cb is M.call(success, v,
\* M.drain, failure) and eb is M.call(failure, v, M.drain, M.drain).
native(self, input, success, failure) ==
    UserBody(self.fn, input, Callback(success, failure), Errback(failure))

-----------------------------------------------------------------------------
(* The programs that are run.  A scenario names a program shape and the    *)
(* bodies of the user functions in it: n1, d1 the arity and body of the    *)
(* first, n2, d2 of the second.                                            *)

K == Fn(1, "K", "stop", "", "")
F == Fn(1, "F", "stop", "", "")
A == Fn(1, "A", "id", "", "")
B == Fn(1, "B", "id", "", "")
C == Fn(1, "C", "ret", "c", "")
E == V("e")

\* A handler or step given by arity and body; two bodies name actions of
\* the library.
Hd(n, id, d) ==
    CASE d = "IO.fail" -> failRef
      [] d = "IO.forgive" -> IO_forgive
      [] OTHER -> Fn(n, id, d, "v", "")

\* Branch k of a fork or any: it calls back with "r<k>" or fails with "e<k>",
\* before it returns or later, or returns IO.raise("e<k>").
Succeeds == {"cb", "later"}
Failing == {"eb", "laterFail", "raise"}

Branch(k, kind) ==
    IF kind = "raise" THEN Fn(1, "b" \o ToString(k), kind, "e" \o ToString(k), "")
    ELSE Fn(3, "b" \o ToString(k), kind,
            (IF kind \in Succeeds THEN "r" ELSE "e") \o ToString(k), "")

\* The value task k sends at its step i.
Msg(k, i) == V("m" \o ToString(k) \o ToString(i))

\* Task k of a channel scenario: send is [supply, c.send, S<k>], recv is
\* [c.recv, R<k>] and wait is a step the outside world completes; S<k> and
\* R<k> log what follows the send and what was received.
RECURSIVE TaskSteps(_, _, _)
TaskSteps(k, shape, i) ==
    IF i > Len(shape) THEN <<>>
    ELSE (CASE shape[i] = "send" ->
                    <<IO_supply(Msg(k, i)), send_chan, Fn(1, "S" \o ToString(k), "id", "", "")>>
            [] shape[i] = "recv" ->
                    <<recv_chan, Fn(1, "R" \o ToString(k), "id", "", "")>>
            [] shape[i] = "wait" ->
                    <<Fn(3, "w" \o ToString(k), "later", "go", "")>>)
         \o TaskSteps(k, shape, i + 1)

Task(k, shape) == IO_do(TaskSteps(k, shape, 1))

\* The step that follows an alt or a try in its sequence: none, one that
\* passes its input on, or one that fails.
Following(after) ==
    CASE after = "none" -> <<>>
      [] after = "id" -> <<Fn(1, "rest", "id", "", "")>>
      [] after = "raise" -> <<Fn(1, "rest", "raise", "boom", "")>>

Prog(s) ==
    CASE s.name = "nested" ->
            IO_do(<<IO_catch(Hd(s.n1, "h1", s.d1)), A,
                    IO_catch(Hd(s.n2, "h2", s.d2)), B, IO_raise(E)>>)
      [] s.name = "resume" ->
            IO_do(<<IO_catch(Hd(s.n2, "h2", s.d2)), IO_raise(E), Fn(1, "rest", "id", "", "")>>)
      [] s.name = "supply" ->
            IO_do(<<IO_supply(V("v")), Fn(1, "rest", "id", "", "")>>)
      [] s.name = "forgive" ->
            IO_do(<<IO_catch(IO_forgive), IO_raise(E)>>)
      [] s.name = "pass" ->
            IO_do(<<>>)
      [] s.name = "restart" ->
            IO_do(<<IO_catch(Hd(s.n2, "h2", s.d2)), A, Fn(1, "B", "raiseUnless", "e", s.d1)>>)
      [] s.name = "finally" ->
            IO_do(<<IO_catch(Hd(s.n1, "h1", s.d1)),
                    IO_finally(C, Array(<<A, Fn(1, "act", s.d2, "e", "v"),
                                            Fn(1, "B", "ret", "out", "")>>))>>)
      [] s.name = "throw" ->
            IO_do(<<A, Fn(s.n2, "T", s.d2, "boom", "")>>)
      [] s.name = "bare" ->
            IO_do(<<A, Fn(1, "act", s.d2, "e", "")>>)
      [] s.name \in {"atomic", "serial"} ->
            IO_atomic(1, Fn(s.n2, "a", s.d2, "", ""))
      [] s.name = "fork" ->
            IO_fork([k \in 1..Len(s.kinds) |-> Branch(k, s.kinds[k])])
      [] s.name = "any" ->
            IO_any([k \in 1..Len(s.kinds) |-> Branch(k, s.kinds[k])])
      [] s.name = "alt" ->
            IO_do(<<IO_alt([k \in 1..Len(s.kinds) |-> Branch(k, s.kinds[k])])>>
                  \o Following(s.after))
      [] s.name = "try" ->
            IO_do(<<IO_try(Branch(1, s.kinds[1]), Hd(s.n2, "h", s.d2))>>
                  \o Following(s.after))
      [] s.name = "finallyThen" ->
            IO_do(<<IO_finally(C, Array(<<A, Branch(1, s.kinds[1])>>))>>
                  \o Following(s.after))
      [] s.name = "clock" ->
            IO_clock(10)
      [] s.name = "genms" ->
            IO_gen(1)
      [] s.name = "debounce" ->
            IO_do(<<Fn(1, "in", "id", "", ""), IO_debounce(10)>> \o Following(s.after))
      [] s.name = "timeout" ->
            IO_timeout(10, Fn(3, "act", s.d1, "out", ""), Fn(4, "ot", s.d2, "late", ""))
      [] s.name = "retry" ->
            IO_timeout(10, Array(<<IO_delay(100), IO_supply(V("ok"))>>),
                       Fn(4, "ot", "retryOnce", "", ""))
      [] s.name = "chanfork" ->
            IO_fork([k \in 1..Len(s.tasks) |-> Task(k, s.tasks[k])])
      [] s.name = "pipeline" ->
            IO_pipeline(<<Fn(s.n1, "a", s.d1, "", ""), Fn(s.n2, "b", s.d2, "", "")>>)
      [] s.name = "spray" ->
            IO_spray(Values(s.n1))
      [] s.name \in {"gen", "gens"} ->
            IO_do(<<IO_spray(Values(s.n1)), IO_atomic(1, Fn(s.n2, "a", s.d2, "", ""))>>)

\* Task k of a sync scenario: [s.now, N<k>] or [s.later, L<k>]; N<k> and
\* L<k> log that the task has continued.
SyncTask(k, kind) ==
    IF kind = "now"
    THEN IO_do(<<IO_sync(0).now, Fn(1, "N" \o ToString(k), "id", "", "")>>)
    ELSE IO_do(<<IO_sync(0).later, Fn(1, "L" \o ToString(k), "id", "", "")>>)

\* The action handed to IO.run: the program with observers for its two
\* continuations, or the program alone.
Main(s) == IF s.name \in {"bare", "chanfork"} THEN Prog(s) ELSE IO_branch(Prog(s), K, F)

\* The success observer of the k-th caller.
Ks(k) == Fn(1, "K" \o ToString(k), "stop", "", "")

\* The cleanup handlers of an interruptible scenario, the global cont it
\* finds, and what IO.interruptible gives it.
Cleanups(s) == [i \in 1..s.n1 |-> Fn(0, "h" \o ToString(i), "", "", "")]

Cont(s) == IF s.cont = "host" THEN passRef ELSE Undef

Built(s) ==
    IO_interruptible(Cont(s), [action |-> wrapAsync3(Fn(3, "act", "later", "done", "")),
                               handlers |-> Cleanups(s)])

\* The failure observer of the k-th caller.
Fs(k) == Fn(1, "F" \o ToString(k), "stop", "", "")

\* Task k of an interruption scenario: a sequence that passes mark and then
\* waits for the outside world, one that runs interrupt, or one that passes
\* mark and runs interrupt itself.
IntTask(k, kind) ==
    CASE kind = "mark" ->
            IO_branch(IO_do(<<IO_interruption(V("why")).mark,
                              Fn(3, "w" \o ToString(k), "later", "go", "")>>), Ks(k), Fs(k))
      [] kind = "interrupt" ->
            IO_do(<<IO_interruption(V("why")).interrupt>>)
      [] kind = "self" ->
            IO_branch(IO_do(<<IO_interruption(V("why")).mark,
                              IO_interruption(V("why")).interrupt>>), Ks(k), Fs(k))

\* The action the k-th call of IO.run is given: callers of a shared atomic
\* action or pipeline each bring their own success observer.
Caller(s, k) ==
    IF s.name \in {"atomic", "pipeline"} THEN IO_branch(Prog(s), Ks(k), F)
    ELSE IF s.name = "serial" THEN IO_branch(Prog(s), Ks(k), Fs(k))
    ELSE IF s.name = "chan" THEN Task(k, s.tasks[k])
    ELSE IF s.name = "sync" THEN SyncTask(k, s.tasks[k])
    ELSE IF s.name = "interruption" THEN IntTask(k, s.tasks[k])
    ELSE IF s.name = "interruptible"
    THEN (IF s.tasks[k] = "act" THEN IO_branch(Built(s).action, Ks(k), Fs(k))
          ELSE IO_do(<<interrupt_>>))
    ELSE Main(s)

Scn(name, n1, d1, n2, d2) == [name |-> name, n1 |-> n1, d1 |-> d1, n2 |-> n2, d2 |-> d2]

Handlers1 == {"stop", "ret", "throw", "resume", "rollback", "rollbackErr", "restart"}
Handlers3 == {"stop", "cb", "eb", "ebIn", "throw", "resume", "rollbackErr"}
Outer == {<<1, "stop">>, <<3, "ebIn">>, <<1, "IO.fail">>}
Inner == ({1} \X (Handlers1 \cup {"IO.fail", "IO.forgive"})) \cup ({3} \X Handlers3)

Scenarios ==
    {Scn("nested", o[1], o[2], i[1], i[2]) : o \in Outer, i \in Inner}
    \cup {Scn("resume", 0, "", i[1], i[2]) : i \in {<<1, "resume">>, <<3, "resume">>}}
    \cup {Scn("supply", 0, "", 0, "")}
    \cup {Scn("forgive", 0, "", 0, ""), Scn("pass", 0, "", 0, "")}
    \cup {Scn("restart", 0, w, i[1], i[2]) :
            w \in {"v", "w"}, i \in {<<1, "ret">>, <<1, "restart">>, <<3, "cb">>, <<3, "restart">>}}
    \cup {Scn("finally", o[1], o[2], 1, d) :
            o \in {<<1, "stop">>, <<1, "resume">>, <<3, "resume">>},
            d \in {"id", "raise", "raiseUnless"}}
    \cup {Scn("throw", 0, "", n, "throw") : n \in 1..4}
    \cup {Scn("bare", 0, "", 1, d) : d \in {"id", "raise"}}

\* Callers sharing one IO.atomic(a); a is synchronous or waits for the
\* outside world, and succeeds or fails.
AtomicScenarios ==
    {Scn("atomic", 0, "", 3, d) : d \in {"cbIn", "async", "asyncAny"}}
    \cup {Scn("pipeline", 3, d1, 3, d2) : d1, d2 \in {"cbIn", "async"}}

\* One generator, or two started by two calls of IO.run, spraying an array
\* into one IO.atomic(a) whose a waits for the outside world and succeeds.
GenScenarios ==
    {Scn("gen", 2 * GenLen, "", 3, "async"), Scn("gens", GenLen, "", 3, "async")}

\* The sequences over S of length at most n.
RECURSIVE SeqsUpTo(_, _)
SeqsUpTo(S, n) ==
    IF n = 0 THEN {<<>>}
    ELSE LET shorter == SeqsUpTo(S, n - 1)
         IN  shorter \cup {Append(q, x) : q \in shorter, x \in S}

\* IO.fork(actions) and IO.any(actions) over every list of at most
\* MaxBranches branches.
ForkScenarios ==
    {[name |-> nm, kinds |-> ks] :
        nm \in {"fork", "any"}, ks \in SeqsUpTo(Succeeds \cup Failing, MaxBranches)}

\* Two tasks on one channel, each started by its own call of IO.run or both
\* branches of one fork.
TaskShapes ==
    {<<"send">>, <<"recv">>, <<"send", "send">>, <<"recv", "recv">>,
     <<"send", "recv">>, <<"recv", "send">>, <<"send", "wait", "recv">>,
     <<"wait", "send">>, <<"wait", "recv">>}

ChanScenarios ==
    {[name |-> nm, tasks |-> <<a, b>>] :
        nm \in {"chan", "chanfork"}, a \in TaskShapes, b \in TaskShapes}

\* IO.alt over every list of at most MaxBranches alternatives, and IO.try
\* of one action with a handler, each followed by a step.
AltScenarios ==
    {[name |-> "alt", kinds |-> ks, after |-> af] :
        ks \in SeqsUpTo(Succeeds \cup Failing, MaxBranches), af \in {"none", "id", "raise"}}
    \cup {[name |-> "try", kinds |-> <<kd>>, n2 |-> h[1], d2 |-> h[2], after |-> af] :
            kd \in Succeeds \cup Failing,
            h \in {<<1, "ret">>, <<1, "throw">>, <<1, "raise">>, <<3, "cb">>, <<3, "eb">>,
                   <<1, "IO.fail">>, <<1, "IO.forgive">>},
            af \in {"none", "id", "raise"}}

\* IO.timeout(10, act, ot): act calls back or fails, at once or when the
\* outside world answers; ot does nothing, calls back, or restarts the
\* timeout the first time it runs.  And the timeout of a delayed supply
\* that is retried once.
TimeoutScenarios ==
    {[name |-> "timeout", d1 |-> d1, d2 |-> d2] :
        d1 \in {"cb", "eb", "later", "laterFail"}, d2 \in {"stop", "cb", "retryOnce"}}
    \cup {[name |-> "retry"]}

\* The most later tasks of a sync scenario.
MaxLaters == 3

\* One sync(N) shared by one now task and at most MaxLaters later tasks,
\* each started by its own call of IO.run, in every order.
SyncScenarios ==
    {[name |-> "sync", n1 |-> n, tasks |-> ts] :
        n \in 0..MaxLaters,
        ts \in {q \in SeqsUpTo({"now", "later"}, MaxLaters + 1) :
                    Cardinality({i \in 1..Len(q) : q[i] = "now"}) = 1}}

\* The most tasks of an interruption scenario: a task logs at most four
\* entries (its wait, the raise, and its two observers), and the log is to
\* hold them all.
MaxTasks == MaxLog \div 4

\* One interruption(reason) shared by at most MaxTasks tasks, each started
\* by its own call of IO.run with its number as input.
IntScenarios ==
    {[name |-> "interruption", tasks |-> ts] :
        ts \in SeqsUpTo({"mark", "interrupt", "self"}, MaxTasks) \ {<<>>}}

\* One interruptible action whose builder installs at most two cleanups;
\* the action is run at most once and its interrupt action any number of
\* times, each by its own call of IO.run, unless IO.interruptible threw.
InterruptibleScenarios ==
    {[name |-> "interruptible", cont |-> c, n1 |-> n, tasks |-> ts] :
        c \in {"undeclared", "host"}, n \in 0..2,
        ts \in {q \in SeqsUpTo({"act", "interrupt"}, MaxTasks) :
                    Cardinality({i \in 1..Len(q) : q[i] = "act"}) <= 1}}

\* IO.spray(xs) for the arrays "1", ..., "n" of at most 2 * GenLen elements,
\* run with the observers K and F as its continuations.
SprayScenarios == {[name |-> "spray", n1 |-> n] : n \in 0..(2 * GenLen)}

\* MaxCallers callers of one IO.atomic(a), each with observers of its own
\* for both continuations; a answers at once, or when the outside world
\* does, with success or failure, or late for the first input only.
SerialScenarios ==
    {Scn("serial", 0, "", 3, d) :
        d \in {"cbIn", "eb", "async", "asyncFail", "asyncAny", "asyncFirst"}}

\* IO.finally(C, [A, b1]) followed by a step: b1 succeeds or fails, at once
\* or when the outside world answers.
FinallyScenarios ==
    {[name |-> "finallyThen", kinds |-> <<kd>>, after |-> af] :
        kd \in Succeeds \cup Failing, af \in {"none", "id", "raise"}}

\* One IO.clock(10) composed with the observers K and F and run with each
\* of at most MaxCallers inputs in turn.
ClockScenarios ==
    {[name |-> "clock", inputs |-> is] :
        is \in SeqsUpTo({"start", "stop", "reset", "other"}, MaxCallers) \ {<<>>}}

\* The function in, an IO.debounce(10) and what follows, composed with the
\* observers K and F and run at most MaxCallers times, with inputs "1",
\* "2", ...
DebounceScenarios ==
    {[name |-> "debounce", runs |-> n, after |-> f] :
        n \in 1..MaxCallers, f \in {"none", "id"}}

\* One IO.gen(g, delay_ms) over an enumerator of n1 values, with delay_ms 0
\* or 10, composed with the observers K and F.
GenMsScenarios ==
    {Scn("genms", n, "", ms, "") : n \in 0..(2 * GenLen), ms \in {0, 10}}

\* How many times IO.run is called in a scenario.
Runs(s) ==
    CASE s.name = "atomic" -> MaxSubmits
      [] s.name \in {"pipeline", "serial"} -> MaxCallers
      [] s.name = "gens" -> 2
      [] s.name \in {"chan", "sync", "interruption"} -> Len(s.tasks)
      [] s.name = "clock" -> Len(s.inputs)
      [] s.name = "debounce" -> s.runs
      [] s.name = "interruptible" -> IF Built(s).thrown = Undef THEN Len(s.tasks) ELSE 0
      [] OTHER -> 1

\* M.depth when the program is run: what earlier runs on IO.Ex left behind.
InitDepths == {0} \cup (maxdepth - 5)..maxdepth

AtomIds == {1, 2}

\* The variables of the combinator instances a scenario makes.
InitCells(s) ==
    [now |-> 0, timers |-> <<>>, touts |-> <<>>, counter |-> 0,
     countDown |-> IO_sync(IF s.name = "sync" THEN s.n1 ELSE 0).countDown,
     followon |-> IO_sync(0).followon,
     handlers |-> IO_interruption(Undef).handlers,
     newid |-> IO_interruption(Undef).newid,
     tickNumber |-> 0,
     lastRequestTime |-> 0,
     lastRequestTimer |-> Undef,
     ticking |-> FALSE,
     thrown |-> IF s.name = "interruptible" THEN Built(s).thrown ELSE Undef,
     interrupt |-> IF s.name = "interruptible" THEN Built(s).interrupt ELSE Undef]

\* The generators made when the program is built: the one IO.gen of a
\* "genms" scenario, over an enumerator of the array "1", ..., "n1".
InitGens(s) ==
    IF s.name = "genms"
    THEN <<[paused |-> FALSE, genCount |-> 0, delay_ms |-> s.n2, i |-> 0,
            array |-> Values(s.n1), burst |-> 0]>>
    ELSE <<>>

InitWith(scenarios, depths) ==
    /\ scn \in scenarios
    /\ stack = <<>>
    /\ ticks = <<>>
    /\ pending = <<>>
    /\ depth \in depths
    /\ log = <<>>
    /\ atom = [i \in AtomIds |-> [arr |-> <<>>, busy |-> FALSE, pauseStream |-> 0]]
    /\ conds = <<>>
    /\ submitted = 0
    /\ overlap = FALSE
    /\ gens = InitGens(scn)
    /\ chans = [waiters |-> <<>>, queue |-> <<>>]
    /\ joins = <<>>
    /\ kids = <<>>
    /\ cells = InitCells(scn)

Init == InitWith(Scenarios, InitDepths)

InitAtomic == InitWith(AtomicScenarios, {0})

InitGenMs == InitWith(GenMsScenarios, {0} \cup ((maxdepth - 12)..maxdepth))

InitDebounce == InitWith(DebounceScenarios, {0} \cup ((maxdepth - 12)..maxdepth))

InitClock == InitWith(ClockScenarios, {0} \cup ((maxdepth - 12)..maxdepth))

InitFinally == InitWith(FinallyScenarios, {0} \cup (maxdepth - 12)..maxdepth)

InitSerial == InitWith(SerialScenarios, {0} \cup (maxdepth - 6)..maxdepth)

\* M.depth when a generator is started; from 10 the delivery of the first
\* PauseCondition is a call that ExM.call defers.
GenDepths == {0, 10, maxdepth}

InitGen == InitWith(GenScenarios, GenDepths)

\* M.depth when the tasks are started: with few calls left before maxdepth,
\* which calls ExM.call defers depends on the depth.
ChanDepths == {0} \cup (maxdepth - 8)..maxdepth

InitChan == InitWith(ChanScenarios, ChanDepths)

InitTimeout == InitWith(TimeoutScenarios, {0} \cup (maxdepth - 6)..maxdepth)

InitSync == InitWith(SyncScenarios, {0} \cup (maxdepth - 6)..maxdepth)

\* M.depth when the array is sprayed: near maxdepth the calls that pass the
\* elements on are deferred.
InitSpray == InitWith(SprayScenarios, {0} \cup (maxdepth - 12)..maxdepth)

InitInt == InitWith(IntScenarios \cup InterruptibleScenarios, {0} \cup (maxdepth - 6)..maxdepth)

InitAlt == InitWith(AltScenarios, {0, maxdepth - 2, maxdepth})

InitFork == InitWith(ForkScenarios, {0, maxdepth - 2, maxdepth})

-----------------------------------------------------------------------------
(* The steps *)

\* The running function performs ops and nothing else.
Step(ops) ==
    /\ stack' = Norm(ops \o Rest)
    /\ UNCHANGED <<scn, ticks, pending, depth, log, atom, conds, submitted, overlap, gens, chans, joins, kids, cells>>

\* A function called by the host starts a new synchronous stretch: the
\* history field burst of every generator, the number of values it produced
\* in the current stretch, starts again at 0.
NewTurn(gs) == [g \in DOMAIN gs |-> [gs[g] EXCEPT !.burst = 0]]

\* ExM.run(input, action), called from outside when nothing is running.
run ==
    /\ stack = <<>>
    /\ submitted < Runs(scn)
    /\ submitted' = submitted + 1
    /\ stack' = <<CallOn(IO_Ex, autowrap(Caller(scn, submitted + 1)),
                         V(IF scn.name \in {"atomic", "pipeline", "interruption", "serial", "debounce"}
                           THEN ToString(submitted + 1)
                           ELSE IF scn.name = "clock" THEN scn.inputs[submitted + 1]
                           ELSE "x"),
                         M_drain, M_drain)>>
    /\ gens' = NewTurn(gens)
    /\ UNCHANGED <<scn, ticks, pending, depth, log, atom, conds, overlap, chans, joins, kids, cells>>

\* M.depth = d: an assignment makes depth a property of M itself.
SetDepth(M, d) ==
    IF M = IO_Ex
    THEN depth' = d /\ kids' = kids
    ELSE depth' = depth /\ kids' = [kids EXCEPT ![M] = [@ EXCEPT !.own = TRUE, !.depth = d]]

\* ExM.call that still calls at once when M.depth is maxdepth.
ExM_call_lateDefer ==
    /\ stack # <<>>
    /\ Head1.op = "call"
    /\ LET M == IF Head1.m = Here THEN FrameM(Rest) ELSE Head1.m
       IN  /\ SetDepth(M, DepthOf(M) + 1)
           /\ IF DepthOf(M) <= maxdepth
              THEN /\ stack' = <<Apply(Head1.a, Head1.in, OrDrain(Head1.s), OrDrain(Head1.f)),
                                 Try(M, Head1.in, Head1.s, Head1.f)>> \o Rest
                   /\ ticks' = ticks
              ELSE /\ stack' = Norm(Rest)
                   /\ ticks' = Append(ticks, [Head1 EXCEPT !.m = M])
    /\ UNCHANGED <<scn, pending, log, atom, conds, submitted, overlap, gens, chans, joins, cells>>

\* ExM.call(action, input, success, failure)
ExM_call ==
    /\ stack # <<>>
    /\ Head1.op = "call"
    /\ LET M == IF Head1.m = Here THEN FrameM(Rest) ELSE Head1.m
       IN  /\ SetDepth(M, DepthOf(M) + 1)
           /\ IF DepthOf(M) < maxdepth
              THEN /\ stack' = <<Apply(Head1.a, Head1.in, OrDrain(Head1.s), OrDrain(Head1.f)),
                                 Try(M, Head1.in, Head1.s, Head1.f)>> \o Rest
                   /\ ticks' = ticks
              ELSE /\ stack' = Norm(Rest)
                   /\ ticks' = Append(ticks, [Head1 EXCEPT !.m = M])
    /\ UNCHANGED <<scn, pending, log, atom, conds, submitted, overlap, gens, chans, joins, cells>>

\* The function ExM.call hands to nextTick.
nextTick ==
    /\ stack = <<>>
    /\ ticks # <<>>
    /\ Head(ticks).op = "call"
    /\ SetDepth(Head(ticks).m, IF 0 < maxdepth - 1 THEN 0 ELSE maxdepth - 1)
    /\ stack' = <<Head(ticks)>>
    /\ ticks' = Tail(ticks)
    /\ gens' = NewTurn(gens)
    /\ UNCHANGED <<scn, pending, log, atom, conds, submitted, overlap, chans, joins, cells>>

\* The operations below the innermost enclosing try block.
RECURSIVE Unwound(_)
Unwound(s) == IF s = <<>> \/ IsMarker(s[1]) THEN s ELSE Unwound(Tail(s))

\* The catch clauses: of ExM.call, of the failure handler call inside it,
\* and of wrapFn.
Caught(e, m) ==
    CASE m.op = "try" ->
            IF m.f.t # "undefined"
            THEN <<Apply(m.f, IOError(e, m.in, m.s, m.f), M_drain, M_drain), TryLog(m.m)>>
            ELSE <<>>
      [] m.op = "tryFn" -> <<Call(m.f, e, M_drain, M_drain)>>
      [] m.op = "tryLog" -> <<>>

\* An exception leaves the functions it passes through.
Unwind ==
    /\ stack # <<>>
    /\ Head1.op = "throw"
    /\ LET u == Unwound(Rest)
       IN  stack' = IF u = <<>> THEN <<>> ELSE Norm(Caught(Head1.e, u[1]) \o Tail(u))
    /\ UNCHANGED <<scn, ticks, pending, depth, log, atom, conds, submitted, overlap, gens, chans, joins, kids, cells>>

Do_drain ==
    /\ Applying("drain")
    /\ Step(drain(Head1.in, Head1.s, Head1.f))

Do_pass ==
    /\ Applying("pass")
    /\ Step(pass(Head1.in, Head1.s, Head1.f))

Do_fail ==
    /\ Applying("fail")
    /\ Step(fail(Head1.in, Head1.s, Head1.f))

Do_seq ==
    /\ Applying("seq")
    /\ Step(seq_(Head1.a, Head1.in, Head1.s, Head1.f))

Do_branch ==
    /\ Applying("branch")
    /\ Step(branch_(Head1.a, Head1.in, Head1.s, Head1.f))

Do_chain ==
    /\ Applying("chain")
    /\ Step(chain_(Head1.a, Head1.in, Head1.s, Head1.f))

Do_chain_iter ==
    /\ Applying("chain_iter")
    /\ Step(chain_iter_(Head1.a, Head1.in, Head1.s, Head1.f))

\* The log also records each raise with the input at the raise site.
Do_raise ==
    /\ Applying("raise_")
    /\ stack' = Norm(raise_(Head1.a, Head1.in, Head1.s, Head1.f) \o Rest)
    /\ log' = Logged("raise", Head1.in)
    /\ UNCHANGED <<scn, ticks, pending, depth, atom, conds, submitted, overlap, gens, chans, joins, kids, cells>>

Do_forgive ==
    /\ Applying("forgive")
    /\ Step(forgive(Head1.in, Head1.s, Head1.f))

Do_sendKV ==
    /\ Applying("sendKV")
    /\ Step(sendKV_(Head1.a, Head1.in, Head1.s, Head1.f))

Do_catch ==
    /\ Applying("catch_")
    /\ Step(catch_(Head1.a, Head1.in, Head1.s, Head1.f))

Do_bindInput ==
    /\ Applying("bindInput")
    /\ Step(bindInput_(Head1.a, Head1.in, Head1.s, Head1.f))

Do_bindInput_k ==
    /\ Applying("bindInput_k")
    /\ Step(bindInput_k(Head1.a, Head1.in, Head1.s, Head1.f))

Do_add ==
    /\ Applying("add_")
    /\ Step(add_(Head1.a, Head1.in, Head1.s, Head1.f))

Do_supply ==
    /\ Applying("supply_")
    /\ Step(supply_(Head1.a, Head1.in, Head1.s, Head1.f))

Do_finally ==
    /\ Applying("finally_")
    /\ Step(finally_(Head1.a, Head1.in, Head1.s, Head1.f))

Do_wrapAsync3 ==
    /\ Applying("wrapAsync3")
    /\ Step(wrapAsync3_(Head1.a, Head1.in, Head1.s, Head1.f))

Do_wrapAsync2 ==
    /\ Applying("wrapAsync2")
    /\ Step(wrapAsync2_(Head1.a, Head1.in, Head1.s, Head1.f))

\* A function that runs user code.
UserStep(ops, cb, eb) ==
    /\ stack' = Norm(ops \o Rest)
    /\ UserEffects(Head1.a.fn, Head1.in, cb, eb)
    /\ UNCHANGED <<scn, ticks, depth, atom, conds, submitted, gens, chans, joins, kids>>

Do_dynamic ==
    /\ Applying("dynamic_")
    /\ UserStep(dynamic_(Head1.a, Head1.in, Head1.s, Head1.f), Undef, Undef)

Do_wrapAsync3_fn ==
    /\ Applying("wrapAsync3_fn")
    /\ Head1.a.fn.do # "catcher"
    /\ UserStep(wrapAsync3_fn(Head1.a, Head1.in, Head1.s, Head1.f),
                Callback(Head1.s, Head1.f), Errback(Head1.f))

Do_wrapAsync2_fn ==
    /\ Applying("wrapAsync2_fn")
    /\ UserStep(wrapAsync2_fn(Head1.a, Head1.in, Head1.s, Head1.f),
                Callback(Head1.s, Head1.f), Errback(Head1.f))

Do_native ==
    /\ Applying("native")
    /\ UserStep(native(Head1.a, Head1.in, Head1.s, Head1.f),
                Callback(Head1.s, Head1.f), Errback(Head1.f))

\* The outside world calls back a user function that was waiting for it.
Complete ==
    /\ stack = <<>>
    /\ \E i \in 1..Len(pending) :
         LET p == pending[i]
         IN  /\ pending' = SubSeq(pending, 1, i - 1) \o SubSeq(pending, i + 1, Len(pending))
             /\ \E ok \in (IF p.fn.do \in {"async", "later", "asyncFirst"} THEN {TRUE}
                           ELSE IF p.fn.do \in {"asyncFail", "laterFail"} THEN {FALSE}
                           ELSE BOOLEAN) :
                    stack' = CallFn(IF ok THEN p.cb ELSE p.eb,
                                    IF p.fn.do \in {"later", "laterFail"} THEN V(p.fn.v)
                                    ELSE IF p.fn.n = 2 THEN V("out") ELSE p.in)
    /\ gens' = NewTurn(gens)
    /\ UNCHANGED <<scn, ticks, depth, log, atom, conds, submitted, overlap, chans, joins, kids, cells>>

-----------------------------------------------------------------------------
(* IO.atomic *)

\* doit that dispatches without looking at busy.
doit_ignoresBusy(self, input, succ, fail_) ==
    [st |-> [atom[self.id] EXCEPT !.busy = TRUE],
     conds |-> conds,
     ops |-> <<Call(seq(self.action, doneRef(self.id, self.action)), input, succ, fail_)>>]

\* doit(M, input, succ, fail): the state of the instance afterwards, the
\* pause conditions afterwards, and the calls made.
doit(self, input, succ, fail_) ==
    LET st == atom[self.id]
        entry == [input |-> input, succ |-> succ, fail |-> fail_]
    IN  IF ~st.busy
        THEN [st |-> [st EXCEPT !.busy = TRUE],
              conds |-> conds,
              ops |-> <<Call(seq(self.action, doneRef(self.id, self.action)), input, succ, fail_)>>]
        ELSE IF kBufferCapacity # 0 /\ Len(st.arr) + 1 >= kBufferCapacity
        THEN LET fresh == st.pauseStream = 0
                 ref == IF fresh THEN Len(conds) + 1 ELSE st.pauseStream
             IN  [st |-> [st EXCEPT !.arr = Append(@, entry), !.pauseStream = ref],
                  conds |-> IF fresh THEN Append(conds, <<>>) ELSE conds,
                  ops |-> <<Call(fail_, IOPauseCondition(ref), M_drain, M_drain)>>]
        ELSE [st |-> [st EXCEPT !.arr = Append(@, entry)],
              conds |-> conds,
              ops |-> <<>>]

Do_doit ==
    /\ Applying("doit")
    /\ LET r == doit(Head1.a, Head1.in, Head1.s, Head1.f)
       IN  /\ atom' = [atom EXCEPT ![Head1.a.id] = r.st]
           /\ conds' = r.conds
           /\ stack' = Norm(r.ops \o Rest)
    /\ UNCHANGED <<scn, ticks, pending, depth, log, submitted, overlap, gens, chans, joins, kids, cells>>

\* The rest of done once the call it makes for the next entry has returned.
Done2(self, output, succ, fail_) ==
    [op |-> "done2", a |-> self, output |-> output, succ |-> succ, fail |-> fail_]

\* done that runs the next entry with the continuations of the caller that
\* just finished.
done_wrongSucc(self, output, succ, fail_) ==
    LET st == atom[self.id]
    IN  IF Len(st.arr) > 0
        THEN LET x == Head(st.arr)
             IN  [st |-> [st EXCEPT !.arr = Tail(@)],
                  ops |-> <<Call(seq(self.action, self), x.input, succ, fail_),
                            Done2(self, output, succ, fail_)>>]
        ELSE [st |-> [st EXCEPT !.busy = FALSE],
              ops |-> <<Call(succ, output, M_drain, fail_)>>]

\* done(M, output, succ, fail) up to and including the call for the next
\* entry.
done(self, output, succ, fail_) ==
    LET st == atom[self.id]
    IN  IF Len(st.arr) > 0
        THEN LET x == Head(st.arr)
             IN  [st |-> [st EXCEPT !.arr = Tail(@)],
                  ops |-> <<Call(seq(self.action, self), x.input, x.succ, x.fail),
                            Done2(self, output, succ, fail_)>>]
        ELSE [st |-> [st EXCEPT !.busy = FALSE],
              ops |-> <<Call(succ, output, M_drain, fail_)>>]

Do_done ==
    /\ Applying("done")
    /\ LET r == done(Head1.a, Head1.in, Head1.s, Head1.f)
       IN  /\ atom' = [atom EXCEPT ![Head1.a.id] = r.st]
           /\ stack' = Norm(r.ops \o Rest)
    /\ UNCHANGED <<scn, ticks, pending, depth, log, conds, submitted, overlap, gens, chans, joins, kids, cells>>

\* IOPauseCondition.prototype.resume: the callbacks, last registered first.
RECURSIVE ResumeCalls(_)
ResumeCalls(cbs) ==
    IF cbs = <<>> THEN <<>>
    ELSE CallFn(cbs[Len(cbs)], Undef) \o ResumeCalls(SubSeq(cbs, 1, Len(cbs) - 1))

\* done that forgets the pause condition without resuming it.
done_resume_forgets(self, output, succ, fail_) ==
    LET st == atom[self.id]
    IN  [st |-> [st EXCEPT !.pauseStream = 0], conds |-> conds,
         ops |-> <<Call(succ, output, M_drain, fail_)>>]

\* done after the call for the next entry: resume the paused producers if
\* the buffer has room, then pass the output on.
done_resume(self, output, succ, fail_) ==
    LET st == atom[self.id]
    IN  IF st.pauseStream # 0 /\ Len(st.arr) < kBufferCapacity
        THEN [st |-> [st EXCEPT !.pauseStream = 0],
              conds |-> [conds EXCEPT ![st.pauseStream] = <<>>],
              ops |-> ResumeCalls(conds[st.pauseStream])
                      \o <<Call(succ, output, M_drain, fail_)>>]
        ELSE [st |-> st, conds |-> conds,
              ops |-> <<Call(succ, output, M_drain, fail_)>>]

Do_done_resume ==
    /\ stack # <<>>
    /\ Head1.op = "done2"
    /\ LET r == done_resume(Head1.a, Head1.output, Head1.succ, Head1.fail)
       IN  /\ atom' = [atom EXCEPT ![Head1.a.id] = r.st]
           /\ conds' = r.conds
           /\ stack' = Norm(r.ops \o Rest)
    /\ UNCHANGED <<scn, ticks, pending, depth, log, submitted, overlap, gens, chans, joins, kids, cells>>

-----------------------------------------------------------------------------
(* ExM.delay, IO.gen and IO.spray *)

\* The function ExM.delay hands to nextTick when ms is 0.
DelayedOn(m, a, in, s, f) == [op |-> "delayed", m |-> m, a |-> a, in |-> in, s |-> s, f |-> f]
Delayed(a, in, s, f) == DelayedOn(CurM, a, in, s, f)

\* That function runs: M.call(action, input, success, failure), with M.depth
\* as it is.
delay ==
    /\ stack = <<>>
    /\ ticks # <<>>
    /\ Head(ticks).op = "delayed"
    /\ stack' = <<CallOn(Head(ticks).m, Head(ticks).a, Head(ticks).in,
                          Head(ticks).s, Head(ticks).f)>>
    /\ ticks' = Tail(ticks)
    /\ gens' = NewTurn(gens)
    /\ UNCHANGED <<scn, pending, depth, log, atom, conds, submitted, overlap, chans, joins, kids, cells>>

\* setTimeout(f, ms): cells.timers with f added, earliest deadline first.
RECURSIVE setTimeout(_, _)
setTimeout(timers, f) ==
    IF timers = <<>> \/ f.at < Head(timers).at THEN <<f>> \o timers
    ELSE <<Head(timers)>> \o setTimeout(Tail(timers), f)

\* M.delay(ms, action, input, success, failure)
ExM_delay(m, ms, a, in, s, f) ==
    IF ms > 0
    THEN [ticks |-> ticks,
          timers |-> setTimeout(cells.timers,
                                [op |-> "delayed", at |-> cells.now + ms, m |-> m,
                                 a |-> a, in |-> in, s |-> s, f |-> f])]
    ELSE [ticks |-> Append(ticks, DelayedOn(m, a, in, s, f)), timers |-> cells.timers]

genOneRef(g) == [t |-> "genOne_", g |-> g]

\* function (error, resume, giveup) {...} given to IO.catch inside gen_.
catcher(g, input, success, failure) ==
    [t |-> "fn", n |-> 3, id |-> "catcher", do |-> "catcher", v |-> "", w |-> "",
     m |-> CurM, g |-> g, input |-> input, success |-> success, failure |-> failure]

\* function () { paused = false; M.call(gen_, input, success, failure); }
onresume_cb(m, g, input, success, failure) ==
    [t |-> "onresume_cb", m |-> m, g |-> g,
     input |-> input, success |-> success, failure |-> failure]

spray_(self, input, success, failure) ==
    [gens |-> Append(gens, [paused |-> FALSE, genCount |-> 0, delay_ms |-> 0, i |-> 0,
                            array |-> self.array, burst |-> 0]),
     ops |-> <<Call(IO_gen(Len(gens) + 1), input, success, failure)>>]

Do_spray ==
    /\ Applying("spray")
    /\ LET r == spray_(Head1.a, Head1.in, Head1.s, Head1.f)
       IN  /\ gens' = r.gens
           /\ stack' = Norm(r.ops \o Rest)
    /\ UNCHANGED <<scn, ticks, pending, depth, log, atom, conds, submitted, overlap, chans, joins, kids, cells>>

gen_(self, input, success, failure) ==
    <<Call(seq(IO_catch(catcher(self.g, input, success, failure)), genOneRef(self.g)),
           input, success, failure)>>

Do_gen ==
    /\ Applying("gen_")
    /\ Step(gen_(Head1.a, Head1.in, Head1.s, Head1.f))

\* The rest of genOne_ once M.call(success, value, ...) has returned.
GenOne2(self, input, success, failure) ==
    [op |-> "genOne2", a |-> self, in |-> input, s |-> success, f |-> failure]

\* genOne_ with an enumerator that advances before it reads.
genOne_readsAhead(self, input, success, failure) ==
    LET st0 == gens[self.g]
        st1 == IF st0.genCount = 0 THEN [st0 EXCEPT !.genCount = kBufferCapacity] ELSE st0
        has == st1.i + 1 < Len(st1.array)
        st2 == [st1 EXCEPT !.i = IF has THEN @ + 1 ELSE @, !.genCount = @ - 1,
                           !.burst = IF has THEN @ + 1 ELSE @]
    IN  IF st1.paused THEN [st |-> st1, ops |-> <<>>]
        ELSE IF has
        THEN [st |-> st2,
              ops |-> <<Call(success, st1.array[st1.i + 2], M_drain, failure),
                        GenOne2(self, input, success, failure)>>]
        ELSE [st |-> st2, ops |-> <<>>]

\* genOne_(M, input, success, failure) up to and including the call that
\* passes the value on.
genOne_(self, input, success, failure) ==
    LET st0 == gens[self.g]
        st1 == IF st0.genCount = 0 THEN [st0 EXCEPT !.genCount = kBufferCapacity] ELSE st0
        has == st1.i < Len(st1.array)
        st2 == [st1 EXCEPT !.i = IF has THEN @ + 1 ELSE @, !.genCount = @ - 1,
                           !.burst = IF has THEN @ + 1 ELSE @]
    IN  IF st1.paused THEN [st |-> st1, ops |-> <<>>]
        ELSE IF has
        THEN [st |-> st2,
              ops |-> <<Call(success, st1.array[st1.i + 1], M_drain, failure),
                        GenOne2(self, input, success, failure)>>]
        ELSE [st |-> st2, ops |-> <<>>]

Do_genOne ==
    /\ Applying("genOne_")
    /\ LET r == genOne_(Head1.a, Head1.in, Head1.s, Head1.f)
       IN  /\ gens' = [gens EXCEPT ![Head1.a.g] = r.st]
           /\ stack' = Norm(r.ops \o Rest)
    /\ UNCHANGED <<scn, ticks, pending, depth, log, atom, conds, submitted, overlap, chans, joins, kids, cells>>

\* genOne_ that goes on at once when the burst is used up.
genOne_next_noYield(self, input, success, failure) ==
    LET st == gens[self.g]
    IN  IF st.paused THEN [ticks |-> ticks, timers |-> cells.timers, ops |-> <<>>]
        ELSE [ticks |-> ticks, timers |-> cells.timers,
              ops |-> <<Apply(self, input, success, failure)>>]

\* genOne_ after the value was passed on: the next value now, or in a later
\* turn when the burst is used up.
genOne_next(self, input, success, failure) ==
    LET st == gens[self.g]
        r == ExM_delay(CurM, st.delay_ms, self, input, success, failure)
    IN  IF st.paused THEN [ticks |-> ticks, timers |-> cells.timers, ops |-> <<>>]
        ELSE IF st.genCount = 0
        THEN [ticks |-> r.ticks, timers |-> r.timers, ops |-> <<>>]
        ELSE [ticks |-> ticks, timers |-> cells.timers,
              ops |-> <<Apply(self, input, success, failure)>>]

Do_genOne_next ==
    /\ stack # <<>>
    /\ Head1.op = "genOne2"
    /\ LET r == genOne_next(Head1.a, Head1.in, Head1.s, Head1.f)
       IN  /\ ticks' = r.ticks
           /\ cells' = [cells EXCEPT !.timers = r.timers]
           /\ stack' = Norm(r.ops \o Rest)
    /\ UNCHANGED <<scn, pending, depth, log, atom, conds, submitted, overlap, gens, chans, joins, kids>>

\* The body of the catcher: a PauseCondition pauses the generator and
\* registers the callback that resumes it; anything else is given up.
catcher_(fn, error, resume, giveup) ==
    IF error.t = "PauseCondition"
    THEN IF ~gens[fn.g].paused
         THEN [st |-> [gens[fn.g] EXCEPT !.paused = TRUE],
               conds |-> [conds EXCEPT ![error.ref] =
                             Append(@, onresume_cb(fn.m, fn.g, fn.input, fn.success, fn.failure))],
               ops |-> <<>>]
         ELSE [st |-> gens[fn.g], conds |-> conds, ops |-> <<>>]
    ELSE [st |-> gens[fn.g], conds |-> conds, ops |-> CallFn(giveup, error)]

Do_catcher ==
    /\ Applying("wrapAsync3_fn")
    /\ Head1.a.fn.do = "catcher"
    /\ LET r == catcher_(Head1.a.fn, Head1.in, Callback(Head1.s, Head1.f), Errback(Head1.f))
       IN  /\ gens' = [gens EXCEPT ![Head1.a.fn.g] = r.st]
           /\ conds' = r.conds
           /\ stack' = Norm(r.ops \o Rest)
    /\ UNCHANGED <<scn, ticks, pending, depth, log, atom, submitted, overlap, chans, joins, kids, cells>>

\* The callback registered with onresume is called.
Do_onresume_cb ==
    /\ stack # <<>>
    /\ Head1.op = "invoke"
    /\ gens' = [gens EXCEPT ![Head1.f.g].paused = FALSE]
    /\ stack' = Norm(<<CallOn(Head1.f.m, IO_gen(Head1.f.g), Head1.f.input,
                              Head1.f.success, Head1.f.failure)>> \o Rest)
    /\ UNCHANGED <<scn, ticks, pending, depth, log, atom, conds, submitted, overlap, chans, joins, kids, cells>>

-----------------------------------------------------------------------------
(* IO.fork and IO.any *)

\* A JavaScript array being filled by index: at holds the elements that
\* were assigned, extra what was assigned to the property "undefined".
EmptyArray == [t |-> "results", at |-> <<>>, extra |-> Undef]

Put(f, i, v) == [x \in DOMAIN f \cup {i} |-> IF x = i THEN v ELSE f[x]]

\* array.length
Length(r) ==
    IF DOMAIN r.at = {} THEN 0
    ELSE (CHOOSE i \in DOMAIN r.at : \A k \in DOMAIN r.at : k <= i) + 1

\* results[x.index] = v
SetResult(r, x, v) ==
    IF "index" \in DOMAIN x THEN [r EXCEPT !.at = Put(@, x.index, v)]
    ELSE [r EXCEPT !.extra = v]

\* delete x.index
DeleteIndex(x) == [key \in DOMAIN x \ {"index"} |-> x[key]]

map_(self, input, success, failure) ==
    <<Call(success, [t |-> "indexed", index |-> self.fn.i, value |-> input], M_drain, failure)>>

Do_map ==
    /\ Applying("map_")
    /\ Step(map_(Head1.a, Head1.in, Head1.s, Head1.f))

\* The closures join and errjoin of invocation j of fork_, which was given
\* the orchestrator m and the continuations success and failure.
forkJoin(tag, j, m, n, success, failure) ==
    [t |-> tag, j |-> j, m |-> m, n |-> n, success |-> success, failure |-> failure]

\* fork_(M, input, success, failure): the invocation's variables, the
\* orchestrators created and the calls handed to nextTick.
fork_(self, input, success, failure) ==
    LET n == Len(self.actions)
        j == Len(joins) + 1
        join == forkJoin("join", j, CurM, n, success, failure)
        errjoin == forkJoin("errjoin", j, CurM, n, success, failure)
    IN  [joins |-> Append(joins, [countUp |-> 0, errUp |-> 0, results |-> EmptyArray]),
         kids |-> kids \o [k \in 1..n |-> Object_create(CurM)],
         ticks |-> ticks \o
            [k \in 1..n |->
                DelayedOn(Len(kids) + k,
                          IO_do(<<self.actions[k], IO_map(indexer(k - 1))>>),
                          input, join, sendKV([index |-> k - 1], errjoin))]]

Do_fork ==
    /\ Applying("fork_")
    /\ LET r == fork_(Head1.a, Head1.in, Head1.s, Head1.f)
       IN  /\ joins' = r.joins
           /\ kids' = r.kids
           /\ ticks' = r.ticks
    /\ stack' = Norm(Rest)
    /\ UNCHANGED <<scn, pending, depth, log, atom, conds, submitted, overlap, gens, chans, cells>>

join(self, output, succ_, fail_) ==
    LET st == joins[self.j]
        st2 == [st EXCEPT !.countUp = @ + 1,
                          !.results = SetResult(@, output, output.value)]
    IN  [st |-> st2,
         ops |-> IF st2.errUp + st2.countUp = self.n
                 THEN <<CallOn(self.m, self.success, st2.results, M_drain, self.failure)>>
                 ELSE <<>>]

Do_join ==
    /\ Applying("join")
    /\ LET r == join(Head1.a, Head1.in, Head1.s, Head1.f)
       IN  /\ joins' = [joins EXCEPT ![Head1.a.j] = r.st]
           /\ stack' = Norm(r.ops \o Rest)
    /\ UNCHANGED <<scn, ticks, pending, depth, log, atom, conds, submitted, overlap, gens, chans, kids, cells>>

errjoin(self, err, succ_, fail_) ==
    LET st == joins[self.j]
        stored == IF err.t \in {"IOError", "object"} THEN DeleteIndex(err) ELSE err
        st2 == [st EXCEPT !.errUp = @ + 1,
                          !.results = SetResult(@, err, stored)]
    IN  [st |-> st2,
         ops |-> IF st2.errUp + st2.countUp = self.n
                 THEN IF st2.countUp = 0
                      THEN <<CallOn(self.m, self.failure, stored, M_drain, M_drain)>>
                      ELSE <<CallOn(self.m, self.success, st2.results, M_drain, self.failure)>>
                 ELSE <<>>]

Do_errjoin ==
    /\ Applying("errjoin")
    /\ LET r == errjoin(Head1.a, Head1.in, Head1.s, Head1.f)
       IN  /\ joins' = [joins EXCEPT ![Head1.a.j] = r.st]
           /\ stack' = Norm(r.ops \o Rest)
    /\ UNCHANGED <<scn, ticks, pending, depth, log, atom, conds, submitted, overlap, gens, chans, kids, cells>>

\* The closures join and joinerr of invocation j of any_.
anyJoin(tag, j, n, success, failure) ==
    [t |-> tag, j |-> j, n |-> n, success |-> success, failure |-> failure]

any_(self, input, success, failure) ==
    LET n == Len(self.actions)
        j == Len(joins) + 1
    IN  [joins |-> Append(joins, [done |-> FALSE, errCount |-> 0]),
         ticks |-> ticks \o
            [k \in 1..n |->
                Delayed(self.actions[k], input,
                        anyJoin("any_join", j, n, success, failure),
                        anyJoin("any_joinerr", j, n, success, failure))]]

Do_any ==
    /\ Applying("any_")
    /\ LET r == any_(Head1.a, Head1.in, Head1.s, Head1.f)
       IN  /\ joins' = r.joins
           /\ ticks' = r.ticks
    /\ stack' = Norm(Rest)
    /\ UNCHANGED <<scn, pending, depth, log, atom, conds, submitted, overlap, gens, chans, kids, cells>>

\* join of any_ that passes on every output it is given.
any_join_noDone(self, output, succ_, fail_) ==
    [st |-> [joins[self.j] EXCEPT !.done = TRUE],
     ops |-> <<Call(self.success, output, M_drain, self.failure)>>]

any_join(self, output, succ_, fail_) ==
    LET st == joins[self.j]
    IN  IF st.done
        THEN [st |-> st, ops |-> <<Call(fail_, V("any"), M_drain, M_drain)>>]
        ELSE [st |-> [st EXCEPT !.done = TRUE],
              ops |-> <<Call(self.success, output, M_drain, self.failure)>>]

\* The log also records each output that arrives at join.
Do_any_join ==
    /\ Applying("any_join")
    /\ LET r == any_join(Head1.a, Head1.in, Head1.s, Head1.f)
       IN  /\ joins' = [joins EXCEPT ![Head1.a.j] = r.st]
           /\ stack' = Norm(r.ops \o Rest)
    /\ log' = Logged("join", Head1.in)
    /\ UNCHANGED <<scn, ticks, pending, depth, atom, conds, submitted, overlap, gens, chans, kids, cells>>

any_joinerr(self, err, succ_, fail_) ==
    LET st == joins[self.j]
        st2 == [st EXCEPT !.errCount = @ + 1]
    IN  [st |-> st2,
         ops |-> <<Call(fail_, err, M_drain, M_drain)>>
                 \o (IF st2.errCount = self.n
                     THEN <<Call(self.failure, V("any"), M_drain, M_drain)>>
                     ELSE <<>>)]

Do_any_joinerr ==
    /\ Applying("any_joinerr")
    /\ LET r == any_joinerr(Head1.a, Head1.in, Head1.s, Head1.f)
       IN  /\ joins' = [joins EXCEPT ![Head1.a.j] = r.st]
           /\ stack' = Norm(r.ops \o Rest)
    /\ UNCHANGED <<scn, ticks, pending, depth, log, atom, conds, submitted, overlap, gens, chans, kids, cells>>

-----------------------------------------------------------------------------
(* IO.chan *)

\* flush(): while both are non-empty, the first waiter is called with the
\* first item of the queue; a waiter hands its M.delay(0, success, data,
\* M.drain, failure) to nextTick.
RECURSIVE flush(_, _, _)
flush(queue, waiters, out) ==
    IF queue # <<>> /\ waiters # <<>>
    THEN flush(Tail(queue), Tail(waiters),
               Append(out, DelayedOn(Head(waiters).m, Head(waiters).success,
                                     Head(queue), M_drain, Head(waiters).failure)))
    ELSE [queue |-> queue, waiters |-> waiters, ticks |-> out]

\* send_chan that does not enqueue when no receiver is parked.
send_chan_drops(input, success, failure) ==
    LET r == flush(IF chans.waiters = <<>> THEN chans.queue ELSE Append(chans.queue, input),
                   chans.waiters, ticks)
    IN  [chans |-> [queue |-> r.queue, waiters |-> r.waiters],
         ticks |-> r.ticks,
         ops |-> <<Call(success, input, M_drain, failure)>>]

send_chan_(input, success, failure) ==
    LET r == flush(Append(chans.queue, input), chans.waiters, ticks)
    IN  [chans |-> [queue |-> r.queue, waiters |-> r.waiters],
         ticks |-> r.ticks,
         ops |-> <<Call(success, input, M_drain, failure)>>]

\* The log also records each value sent, as handed if a parked receiver was
\* given it.
Do_send_chan ==
    /\ Applying("send_chan")
    /\ LET r == send_chan_(Head1.in, Head1.s, Head1.f)
       IN  /\ chans' = r.chans
           /\ ticks' = r.ticks
           /\ stack' = Norm(r.ops \o Rest)
    /\ log' = Logged(IF chans.waiters # <<>> /\ chans.queue = <<>> THEN "handed" ELSE "send",
                     Head1.in)
    /\ UNCHANGED <<scn, pending, depth, atom, conds, submitted, overlap, gens, joins, kids, cells>>

\* recv_chan that parks whether or not an item is queued.
recv_chan_parks(input, success, failure) ==
    LET r == flush(chans.queue, chans.waiters, ticks)
    IN  [chans |-> [queue |-> r.queue,
                    waiters |-> Append(r.waiters, waiter(CurM, success, failure))],
         ticks |-> r.ticks,
         ops |-> <<>>]

recv_chan_(input, success, failure) ==
    LET r == flush(chans.queue, chans.waiters, ticks)
    IN  IF r.queue = <<>>
        THEN [chans |-> [queue |-> r.queue,
                         waiters |-> Append(r.waiters, waiter(CurM, success, failure))],
              ticks |-> r.ticks,
              ops |-> <<>>]
        ELSE [chans |-> [queue |-> Tail(r.queue), waiters |-> r.waiters],
              ticks |-> r.ticks,
              ops |-> <<Call(success, Head(r.queue), M_drain, failure)>>]

Do_recv_chan ==
    /\ Applying("recv_chan")
    /\ LET r == recv_chan_(Head1.in, Head1.s, Head1.f)
       IN  /\ chans' = r.chans
           /\ ticks' = r.ticks
           /\ stack' = Norm(r.ops \o Rest)
    /\ UNCHANGED <<scn, pending, depth, log, atom, conds, submitted, overlap, gens, joins, kids, cells>>

-----------------------------------------------------------------------------
(* send, IO.try and IO.alt *)

send_(self, input_, success, failure) ==
    <<Call(self.action, self.input, success, failure)>>

Do_send ==
    /\ Applying("send")
    /\ Step(send_(Head1.a, Head1.in, Head1.s, Head1.f))

try_(self, input, success, failure) ==
    <<Call(self.action, input, success, branch(self.onfail, success, failure))>>

Do_try ==
    /\ Applying("try_")
    /\ Step(try_(Head1.a, Head1.in, Head1.s, Head1.f))

\* alt that hands the next alternative whatever reaches the failure
\* continuation.
alt_noSend(self, input, success, failure) ==
    <<Call(self.actions[1], input, success,
           branch(alt_impl(Tail(self.actions)), success, failure))>>

alt_(self, input, success, failure) ==
    <<Call(self.actions[1], input, success,
           branch(send(input, alt_impl(Tail(self.actions))), success, failure))>>

Do_alt ==
    /\ Applying("alt_")
    /\ Step(alt_(Head1.a, Head1.in, Head1.s, Head1.f))

-----------------------------------------------------------------------------
(* Timers: setTimeout, ExM.delay with ms > 0, IO.delay and IO.timeout.      *)
(* cells.timers holds the functions given to setTimeout, earliest deadline  *)
(* first and, among equal deadlines, in the order they were set; cells.now  *)
(* is the time of the last timer that fired.                               *)

delay_(self, input, success, failure) ==
    ExM_delay(CurM, self.ms, success, input, M_drain, failure)

Do_delay ==
    /\ Applying("delay_")
    /\ LET r == delay_(Head1.a, Head1.in, Head1.s, Head1.f)
       IN  /\ ticks' = r.ticks
           /\ cells' = [cells EXCEPT !.timers = r.timers]
    /\ stack' = Norm(Rest)
    /\ UNCHANGED <<scn, pending, depth, log, atom, conds, submitted, overlap, gens, chans, joins, kids>>

timeout_(self, input, success, failure) ==
    LET j == Len(cells.touts) + 1
    IN  [cells |-> [cells EXCEPT
                      !.touts = Append(@, [timedout |-> FALSE, completed |-> FALSE]),
                      !.timers = setTimeout(@, [op |-> "watchdog", at |-> cells.now + self.ms,
                                               j |-> j, m |-> CurM, self |-> self, in |-> input,
                                               s |-> success, f |-> failure])],
         ops |-> <<Call(self.action, input, timeout_done(j, CurM, success, failure), failure)>>]

Do_timeout ==
    /\ Applying("timeout_")
    /\ LET r == timeout_(Head1.a, Head1.in, Head1.s, Head1.f)
       IN  /\ cells' = r.cells
           /\ stack' = Norm(r.ops \o Rest)
    /\ UNCHANGED <<scn, ticks, pending, depth, log, atom, conds, submitted, overlap, gens, chans, joins, kids>>

\* The continuation that passes the output on whether or not the watchdog
\* has fired.
timeout_done_delivers(self, output, succ_, fail_) ==
    [touts |-> [cells.touts EXCEPT ![self.j].completed = TRUE],
     ops |-> <<CallOn(self.m, self.success, output, M_drain, self.failure)>>]

timeout_done_(self, output, succ_, fail_) ==
    [touts |-> [cells.touts EXCEPT ![self.j].completed = TRUE],
     ops |-> IF ~cells.touts[self.j].timedout
             THEN <<CallOn(self.m, self.success, output, M_drain, self.failure)>>
             ELSE <<>>]

Do_timeout_done ==
    /\ Applying("timeout_done")
    /\ LET r == timeout_done_(Head1.a, Head1.in, Head1.s, Head1.f)
       IN  /\ cells' = [cells EXCEPT !.touts = r.touts]
           /\ stack' = Norm(r.ops \o Rest)
    /\ UNCHANGED <<scn, ticks, pending, depth, log, atom, conds, submitted, overlap, gens, chans, joins, kids>>

\* The watchdog that runs ontimeout whether or not the action has completed.
watchdog_ignoresCompleted(w) ==
    [touts |-> [cells.touts EXCEPT ![w.j].timedout = TRUE],
     ops |-> <<CallOn(w.m, w.self.ontimeout, restartFn(w.m, w.self, w.in, w.s, w.f), w.f, w.f)>>]

\* The watchdog that gives ontimeout the input of the timeout.
watchdog_passesInput(w) ==
    [touts |-> [cells.touts EXCEPT ![w.j].timedout = TRUE],
     ops |-> IF ~cells.touts[w.j].completed
             THEN <<CallOn(w.m, w.self.ontimeout, w.in, w.f, w.f)>>
             ELSE <<>>]

\* function watchdog() of invocation w.j of timeout_
watchdog(w) ==
    [touts |-> [cells.touts EXCEPT ![w.j].timedout = TRUE],
     ops |-> IF ~cells.touts[w.j].completed
             THEN <<CallOn(w.m, w.self.ontimeout, restartFn(w.m, w.self, w.in, w.s, w.f), w.f, w.f)>>
             ELSE <<>>]

\* The earliest timer fires: a watchdog, or the function ExM.delay gave to
\* setTimeout.  The log also records each watchdog and whether the action
\* had completed.
timer ==
    /\ stack = <<>>
    /\ cells.timers # <<>>
    /\ LET w == Head(cells.timers)
       IN  IF w.op = "watchdog"
           THEN /\ cells' = [cells EXCEPT !.timers = Tail(@), !.now = w.at,
                                           !.touts = watchdog(w).touts]
                /\ stack' = watchdog(w).ops
                /\ log' = Logged("watchdog", V(IF cells.touts[w.j].completed
                                               THEN "late" ELSE "first"))
           ELSE /\ cells' = [cells EXCEPT !.timers = Tail(@), !.now = w.at]
                /\ stack' = <<CallOn(w.m, w.a, w.in, w.s, w.f)>>
                /\ log' = log
    /\ gens' = NewTurn(gens)
    /\ UNCHANGED <<scn, ticks, pending, depth, atom, conds, submitted, overlap, chans, joins, kids>>

-----------------------------------------------------------------------------

(* IO.sync *)

\* now parks: it leaves the function that continues it in followon.
Do_sync_now ==
    /\ Applying("sync_now_")
    /\ cells' = [cells EXCEPT !.followon = [t |-> "followon", m |-> CurM, input |-> Head1.in,
                                            success |-> Head1.s, failure |-> Head1.f]]
    /\ stack' = Norm(Rest)
    /\ UNCHANGED <<scn, ticks, pending, depth, log, atom, conds, submitted, overlap, gens, chans, joins, kids>>

\* followon(), for the variables c of the sync.
followon(c) ==
    IF c.countDown - 1 <= 0
    THEN [countDown |-> c.countDown - 1, followon |-> Undef,
          ops |-> <<CallOn(c.followon.m, c.followon.success, c.followon.input,
                           M_drain, c.followon.failure)>>]
    ELSE [countDown |-> c.countDown - 1, followon |-> c.followon, ops |-> <<>>]

sync_later_body(self, input, success, failure) ==
    LET r == IF cells.followon # Undef THEN followon(cells)
             ELSE [countDown |-> cells.countDown, followon |-> cells.followon, ops |-> <<>>]
    IN  [countDown |-> r.countDown, followon |-> r.followon,
         ops |-> r.ops \o <<Call(success, input, M_drain, failure)>>]

Do_sync_later ==
    /\ Applying("sync_later_")
    /\ LET r == sync_later_body(Head1.a, Head1.in, Head1.s, Head1.f)
       IN  /\ cells' = [cells EXCEPT !.countDown = r.countDown, !.followon = r.followon]
           /\ stack' = Norm(r.ops \o Rest)
    /\ UNCHANGED <<scn, ticks, pending, depth, log, atom, conds, submitted, overlap, gens, chans, joins, kids>>

-----------------------------------------------------------------------------

(* IO.interruption *)

\* mark: handlers[id] is kept as what the handler function closes over;
\* the table is in the order of its keys.
mark(self, input, success, failure) ==
    [newid |-> cells.newid + 1,
     handlers |-> Append(cells.handlers,
                         [id |-> cells.newid + 1, m |-> CurM, reason |-> self.reason,
                          input |-> input, success |-> success, failure |-> failure]),
     ops |-> <<Call(success, input, M_drain, failure)>>]

Do_mark ==
    /\ Applying("mark")
    /\ LET r == mark(Head1.a, Head1.in, Head1.s, Head1.f)
       IN  /\ cells' = [cells EXCEPT !.newid = r.newid, !.handlers = r.handlers]
           /\ stack' = Norm(r.ops \o Rest)
    /\ UNCHANGED <<scn, ticks, pending, depth, log, atom, conds, submitted, overlap, gens, chans, joins, kids>>

\* A handler that stays in the table.
handler_stays(h, c) ==
    [handlers |-> c.handlers,
     ticks |-> Append(c.ticks, DelayedOn(h.m, IO_raise(V("interrupted")),
                                         Interruption(h.reason, h.input),
                                         h.success, h.failure))]

\* handlers[id](), on the table and the nextTick queue c: the handler
\* deletes itself and M.delay(0, ...) hands the raise to nextTick.
handler(h, c) ==
    [handlers |-> SelectSeq(c.handlers, LAMBDA x : x.id # h.id),
     ticks |-> Append(c.ticks, DelayedOn(h.m, IO_raise(V("interrupted")),
                                         Interruption(h.reason, h.input),
                                         h.success, h.failure))]

\* The loop of interrupt over keys.
RECURSIVE handlersLoop(_, _)
handlersLoop(keys, c) ==
    IF keys = <<>> THEN c ELSE handlersLoop(Tail(keys), handler(Head(keys), c))

interrupt(self, input, success, failure) ==
    LET r == handlersLoop(cells.handlers, [handlers |-> cells.handlers, ticks |-> ticks])
    IN  [handlers |-> r.handlers, ticks |-> r.ticks,
         ops |-> <<Call(success, input, M_drain, failure)>>]

Do_interrupt ==
    /\ Applying("interrupt")
    /\ LET r == interrupt(Head1.a, Head1.in, Head1.s, Head1.f)
       IN  /\ cells' = [cells EXCEPT !.handlers = r.handlers]
           /\ ticks' = r.ticks
           /\ stack' = Norm(r.ops \o Rest)
    /\ UNCHANGED <<scn, pending, depth, log, atom, conds, submitted, overlap, gens, chans, joins, kids>>

-----------------------------------------------------------------------------

(* IO.interruptible *)

\* action.interrupt looks the variable interrupt up when it runs.
Do_interrupt_ ==
    /\ Applying("interrupt_")
    /\ Step(<<Call(cells.interrupt, Head1.in, Head1.s, Head1.f)>>)

\* The function oninterrupt made: handler(), then the one it replaced.
Do_oninterrupt ==
    /\ Applying("oninterrupt")
    /\ log' = Logged(Head1.a.handler.id, Undef)
    /\ stack' = Norm(<<Call(Head1.a.oldInterrupt, Head1.in, Head1.s, Head1.f)>> \o Rest)
    /\ UNCHANGED <<scn, ticks, pending, depth, atom, conds, submitted, overlap, gens, chans, joins, kids, cells>>

-----------------------------------------------------------------------------

(* IO.debounce *)

\* debounce_(M, input, success, failure).  Date.now() is cells.now.  No
\* host defines cancelTimeout (the function that cancels a timer is
\* clearTimeout), so the call throws a ReferenceError before anything is
\* assigned.
debounce_(self, input, success, failure) ==
    LET thisRequestTime == cells.now
        fire == [op |-> "delayed", at |-> cells.now + self.ms, m |-> CurM,
                 a |-> success, in |-> input, s |-> M_drain, f |-> failure]
    IN  IF cells.lastRequestTimer # Undef /\ thisRequestTime - cells.lastRequestTime < self.ms
        THEN [cells |-> cells, ops |-> <<Throw(ReferenceError("cancelTimeout"))>>]
        ELSE [cells |-> [cells EXCEPT !.timers = setTimeout(@, fire),
                                      !.lastRequestTimer = [t |-> "timer", at |-> fire.at],
                                      !.lastRequestTime = thisRequestTime],
              ops |-> <<>>]

Do_debounce ==
    /\ Applying("debounce_")
    /\ LET r == debounce_(Head1.a, Head1.in, Head1.s, Head1.f)
       IN  /\ cells' = r.cells
           /\ stack' = Norm(r.ops \o Rest)
    /\ UNCHANGED <<scn, ticks, pending, depth, log, atom, conds, submitted, overlap, gens, chans, joins, kids>>

-----------------------------------------------------------------------------

(* IO.clock *)

\* The longest a clock is followed.
MaxTime == 40

\* tick that does not look at ticking.
tick_always(self, input, success, failure) ==
    LET r == ExM_delay(CurM, self.period_ms, self, Null, success, failure)
    IN  [tickNumber |-> cells.tickNumber + 1, ticks |-> r.ticks, timers |-> r.timers,
         ops |-> <<Call(success, V(ToString(cells.tickNumber)), M_drain, failure)>>]

\* tick(M, input, success, failure)
tick_(self, input, success, failure) ==
    IF cells.ticking
    THEN LET r == ExM_delay(CurM, self.period_ms, self, Null, success, failure)
         IN  [tickNumber |-> cells.tickNumber + 1, ticks |-> r.ticks, timers |-> r.timers,
              ops |-> <<Call(success, V(ToString(cells.tickNumber)), M_drain, failure)>>]
    ELSE [tickNumber |-> cells.tickNumber, ticks |-> ticks, timers |-> cells.timers,
          ops |-> <<>>]

Do_tick ==
    /\ Applying("tick")
    /\ cells.now < MaxTime
    /\ LET r == tick_(Head1.a, Head1.in, Head1.s, Head1.f)
       IN  /\ cells' = [cells EXCEPT !.tickNumber = r.tickNumber, !.timers = r.timers]
           /\ ticks' = r.ticks
           /\ stack' = Norm(r.ops \o Rest)
    /\ UNCHANGED <<scn, pending, depth, log, atom, conds, submitted, overlap, gens, chans, joins, kids>>

\* clock_(M, input, success, failure); M.delay(0, ...) hands tick to
\* nextTick.
clock_(self, input, success, failure) ==
    LET n == IF input = V("reset") THEN 0 ELSE cells.tickNumber
    IN  IF cells.ticking
        THEN [tickNumber |-> n, ticking |-> input # V("stop"), ticks |-> ticks]
        ELSE IF input = V("start")
        THEN [tickNumber |-> n, ticking |-> TRUE,
              ticks |-> Append(ticks, DelayedOn(CurM, tick(self.period_ms),
                                                V(ToString(n)), success, failure))]
        ELSE [tickNumber |-> n, ticking |-> FALSE, ticks |-> ticks]

Do_clock ==
    /\ Applying("clock_")
    /\ LET r == clock_(Head1.a, Head1.in, Head1.s, Head1.f)
       IN  /\ cells' = [cells EXCEPT !.tickNumber = r.tickNumber, !.ticking = r.ticking]
           /\ ticks' = r.ticks
    /\ stack' = Norm(Rest)
    /\ UNCHANGED <<scn, pending, depth, log, atom, conds, submitted, overlap, gens, chans, joins, kids>>

-----------------------------------------------------------------------------

Next ==
    \/ run
    \/ ExM_call
    \/ nextTick
    \/ Unwind
    \/ Do_drain
    \/ Do_pass
    \/ Do_fail
    \/ Do_seq
    \/ Do_branch
    \/ Do_chain
    \/ Do_chain_iter
    \/ Do_raise
    \/ Do_forgive
    \/ Do_sendKV
    \/ Do_catch
    \/ Do_bindInput
    \/ Do_bindInput_k
    \/ Do_add
    \/ Do_supply
    \/ Do_finally
    \/ Do_wrapAsync3
    \/ Do_wrapAsync2
    \/ Do_dynamic
    \/ Do_wrapAsync3_fn
    \/ Do_wrapAsync2_fn
    \/ Do_native

Spec == Init /\ [][Next]_vars

\* The steps of callers that share an atomic action.
NextAtomic ==
    \/ run
    \/ ExM_call
    \/ nextTick
    \/ Complete
    \/ Do_seq
    \/ Do_branch
    \/ Do_chain
    \/ Do_chain_iter
    \/ Do_dynamic
    \/ Do_wrapAsync3
    \/ Do_wrapAsync3_fn
    \/ Do_doit
    \/ Do_done
    \/ Do_done_resume

SpecAtomic == InitAtomic /\ [][NextAtomic]_vars

NextGenMs ==
    \/ run
    \/ ExM_call
    \/ nextTick
    \/ delay
    \/ timer
    \/ Do_seq
    \/ Do_branch
    \/ Do_catch
    \/ Do_dynamic
    \/ Do_gen
    \/ Do_genOne
    \/ Do_genOne_next

SpecGenMs == InitGenMs /\ [][NextGenMs]_vars

NextDebounce ==
    \/ run
    \/ ExM_call
    \/ nextTick
    \/ timer
    \/ Do_branch
    \/ Do_chain
    \/ Do_chain_iter
    \/ Do_dynamic
    \/ Do_debounce
    \/ Unwind

SpecDebounce == InitDebounce /\ [][NextDebounce]_vars

NextClock ==
    \/ run
    \/ ExM_call
    \/ nextTick
    \/ delay
    \/ timer
    \/ Do_branch
    \/ Do_dynamic
    \/ Do_clock
    \/ Do_tick

SpecClock == InitClock /\ [][NextClock]_vars

NextFinally ==
    \/ run
    \/ ExM_call
    \/ nextTick
    \/ Complete
    \/ Do_seq
    \/ Do_branch
    \/ Do_chain
    \/ Do_chain_iter
    \/ Do_raise
    \/ Do_bindInput
    \/ Do_bindInput_k
    \/ Do_add
    \/ Do_finally
    \/ Do_dynamic
    \/ Do_wrapAsync3
    \/ Do_wrapAsync3_fn

SpecFinally == InitFinally /\ [][NextFinally]_vars

NextSerial ==
    \/ run
    \/ ExM_call
    \/ nextTick
    \/ Complete
    \/ Do_seq
    \/ Do_branch
    \/ Do_dynamic
    \/ Do_wrapAsync3
    \/ Do_wrapAsync3_fn
    \/ Do_doit
    \/ Do_done
    \/ Do_done_resume

SpecSerial == InitSerial /\ [][NextSerial]_vars

\* The steps of a program that forks.
NextFork ==
    \/ run
    \/ ExM_call
    \/ nextTick
    \/ delay
    \/ Complete
    \/ Do_drain
    \/ Do_branch
    \/ Do_chain
    \/ Do_chain_iter
    \/ Do_raise
    \/ Do_sendKV
    \/ Do_dynamic
    \/ Do_wrapAsync3
    \/ Do_wrapAsync3_fn
    \/ Do_map
    \/ Do_fork
    \/ Do_join
    \/ Do_errjoin
    \/ Do_any
    \/ Do_any_join
    \/ Do_any_joinerr

SpecFork == InitFork /\ [][NextFork]_vars

\* The steps of a program that tries alternatives.
NextAlt ==
    \/ run
    \/ ExM_call
    \/ nextTick
    \/ Unwind
    \/ Complete
    \/ Do_fail
    \/ Do_forgive
    \/ Do_branch
    \/ Do_chain
    \/ Do_chain_iter
    \/ Do_raise
    \/ Do_dynamic
    \/ Do_wrapAsync3
    \/ Do_wrapAsync3_fn
    \/ Do_send
    \/ Do_try
    \/ Do_alt

SpecAlt == InitAlt /\ [][NextAlt]_vars

\* The steps of a program with timers.
NextTimeout ==
    \/ run
    \/ ExM_call
    \/ nextTick
    \/ timer
    \/ Complete
    \/ Do_branch
    \/ Do_chain
    \/ Do_chain_iter
    \/ Do_supply
    \/ Do_dynamic
    \/ Do_wrapAsync3
    \/ Do_wrapAsync3_fn
    \/ Do_native
    \/ Do_delay
    \/ Do_timeout
    \/ Do_timeout_done

SpecTimeout == InitTimeout /\ [][NextTimeout]_vars

NextSync ==
    \/ run
    \/ ExM_call
    \/ nextTick
    \/ Do_chain
    \/ Do_chain_iter
    \/ Do_dynamic
    \/ Do_drain
    \/ Do_sync_now
    \/ Do_sync_later

SpecSync == InitSync /\ [][NextSync]_vars

NextSpray ==
    \/ run
    \/ ExM_call
    \/ nextTick
    \/ delay
    \/ Do_seq
    \/ Do_branch
    \/ Do_catch
    \/ Do_dynamic
    \/ Do_spray
    \/ Do_gen
    \/ Do_genOne
    \/ Do_genOne_next

SpecSpray == InitSpray /\ [][NextSpray]_vars

NextInt ==
    \/ run
    \/ ExM_call
    \/ nextTick
    \/ delay
    \/ Complete
    \/ Do_branch
    \/ Do_chain
    \/ Do_chain_iter
    \/ Do_raise
    \/ Do_dynamic
    \/ Do_drain
    \/ Do_wrapAsync3
    \/ Do_wrapAsync3_fn
    \/ Do_interrupt
    \/ Do_pass
    \/ Do_mark
    \/ Do_interrupt
    \/ Do_interrupt_
    \/ Do_oninterrupt
    \/ Do_interrupt

SpecInt == InitInt /\ [][NextInt]_vars

\* The steps of tasks that share a channel.
NextChan ==
    \/ run
    \/ ExM_call
    \/ nextTick
    \/ delay
    \/ Complete
    \/ Do_drain
    \/ Do_chain
    \/ Do_chain_iter
    \/ Do_supply
    \/ Do_dynamic
    \/ Do_wrapAsync3
    \/ Do_wrapAsync3_fn
    \/ Do_map
    \/ Do_fork
    \/ Do_join
    \/ Do_send_chan
    \/ Do_recv_chan

SpecChan == InitChan /\ [][NextChan]_vars

\* The forgive law: chain([catch(forgive), raise(e)]) and pass, each run
\* once.
InitForgive ==
    InitWith({Scn("forgive", 0, "", 0, ""), Scn("pass", 0, "", 0, "")}, InitDepths)

NextForgive ==
    \/ run
    \/ ExM_call
    \/ nextTick
    \/ Do_pass
    \/ Do_branch
    \/ Do_chain
    \/ Do_chain_iter
    \/ Do_raise
    \/ Do_forgive
    \/ Do_sendKV
    \/ Do_catch
    \/ Do_dynamic

\* A turn of the event loop runs to completion and the event loop runs the
\* callbacks handed to nextTick: a step that can be taken is taken.
SpecForgive == InitForgive /\ [][NextForgive]_vars /\ WF_vars(NextForgive)

\* The steps of generators feeding an atomic action, apart from IO.run.
StepGen ==
    \/ ExM_call
    \/ nextTick
    \/ delay
    \/ Complete
    \/ Do_seq
    \/ Do_branch
    \/ Do_chain
    \/ Do_chain_iter
    \/ Do_sendKV
    \/ Do_catch
    \/ Do_dynamic
    \/ Do_wrapAsync3
    \/ Do_wrapAsync3_fn
    \/ Do_doit
    \/ Do_done
    \/ Do_done_resume
    \/ Do_spray
    \/ Do_gen
    \/ Do_genOne
    \/ Do_genOne_next
    \/ Do_catcher
    \/ Do_onresume_cb

NextGen == run \/ StepGen

\* A turn of the event loop runs to completion, the event loop runs the
\* callbacks handed to nextTick, and every invocation of a is called back.
SpecGen == InitGen /\ [][NextGen]_vars /\ WF_vars(StepGen)

TypeOK ==
    /\ depth \in 0..(maxdepth + 100)
    /\ Len(log) <= MaxLog
    /\ submitted \in 0..MaxSubmits

-----------------------------------------------------------------------------
(* Properties *)

\* Nothing is running and nothing is queued.
Quiet == submitted > 0 /\ stack = <<>> /\ ticks = <<>> /\ pending = <<>>

Entry(id, x) == [id |-> id, in |-> x]
ErrSummary(t, e, in) == [t |-> t, error |-> e, input |-> in]

Count(id) == Cardinality({i \in 1..Len(log) : log[i].id = id})

\* The part of the log made by the functions in ids.
RECURSIVE Only(_, _)
Only(l, ids) ==
    IF l = <<>> THEN <<>>
    ELSE IF l[1].id \in ids THEN <<l[1]>> \o Only(Tail(l), ids) ELSE Only(Tail(l), ids)

IsPrefix(a, b) == Len(a) <= Len(b) /\ SubSeq(b, 1, Len(a)) = a

UserHandler(d) == d \notin {"IO.fail", "IO.forgive"}

\* A handler with body d fails on input in: it throws, calls its errback,
\* or calls a method its input does not have.
Fails(d, in) ==
    \/ d \in {"throw", "eb", "ebIn"}
    \/ d \in {"resume", "rollback", "rollbackErr", "restart"} /\ in.t \notin {"IOError", "object"}

\* C1: with nested catch points, an error raised in the innermost region
\* reaches the inner handler h2 first; the outer handler h1 runs only right
\* after a run of h2 that failed, never before h2.
C1_InnerHandlerFirst ==
    (scn.name = "nested" /\ UserHandler(scn.d1) /\ UserHandler(scn.d2)) =>
        \A i \in 1..Len(log) :
            log[i].id = "h1" =>
                /\ i > 1
                /\ log[i - 1].id = "h2"
                /\ Fails(scn.d2, log[i - 1].in)

C1_Witness ==
    /\ scn.name = "nested" /\ scn.d2 = "eb"
    /\ \E i \in 2..Len(log) : log[i].id = "h1" /\ log[i - 1].id = "h2"

\* C2: chain([catch(h), raise(e), rest]) with h calling err.resume(v) runs
\* rest once with v and then the continuation after the chain, exactly as
\* chain([supply(v), rest]) does; the failure continuation outside the
\* catch is not invoked.
C2_ResumeIsSupply ==
    scn.name \in {"resume", "supply"} =>
        LET expected == <<Entry("rest", V("v")), Entry("K", V("v"))>>
            seen == Only(log, {"rest", "K", "F"})
        IN  /\ IsPrefix(seen, expected)
            /\ Quiet => seen = expected
            /\ Count("h2") <= 1

C2_Witness ==
    /\ scn.name = "resume" /\ Quiet
    /\ Count("h2") = 1
    /\ Only(log, {"rest", "K", "F"}) = <<Entry("rest", V("v")), Entry("K", V("v"))>>

\* C3: err.rollback(v) called in the handler of the nearest catch bypasses
\* that handler: the handler is not invoked again and the next outer
\* handler receives v.
C3_RollbackBypassesHandler ==
    (scn.name = "nested" /\ scn.d2 = "rollback" /\ UserHandler(scn.d1)) =>
        /\ Count("h2") <= 1
        /\ \A i \in 1..Len(log) : log[i].id = "h1" => log[i].in = V("v")

\* C4: when a catch handler succeeds with v, or calls err.restart(v), the
\* sequence after the catch is entered again at its first step with v, and
\* the same handler is in place: a second error in it reaches the handler
\* again.
C4_RestartReentersRegion ==
    scn.name = "restart" =>
        \A i \in 1..(Len(log) - 1) :
            /\ log[i].id = "h2" => log[i + 1] = Entry("A", V("v"))
            /\ log[i].id = "raise" => log[i + 1].id = "h2"

C4_Witness ==
    /\ scn.name = "restart"
    /\ \E i \in 1..(Len(log) - 4) :
          /\ log[i].id = "h2"
          /\ log[i + 1] = Entry("A", V("v"))
          /\ log[i + 3].id = "raise"
          /\ log[i + 4].id = "h2"

\* What the outer handler receives when the inner handler with body d
\* fails on the error raised in the nested program.
InnerFailure(n, d) ==
    LET err == ErrSummary("IOError", E, V("x"))
    IN  CASE d \in {"ebIn", "IO.fail"} -> err
          [] d = "throw" /\ n # 1 -> ErrSummary("IOError", V("v"), err)
          [] OTHER -> V("v")

\* C5: when the inner handler fails with x, the outer handler is invoked
\* once with x, and neither the inner handler nor the inner region runs
\* again.
C5_HandlerFailureGoesOut ==
    (scn.name = "nested" /\ scn.d2 \in {"throw", "eb", "ebIn", "IO.fail"} /\ UserHandler(scn.d1)) =>
        /\ Count("h1") <= 1
        /\ Count("h2") <= 1
        /\ Count("B") <= 1
        /\ Count("raise") <= 1
        /\ \A i \in 1..Len(log) : log[i].id = "h1" => log[i].in = InnerFailure(scn.n2, scn.d2)
        /\ Quiet => Count("h1") = 1

C5_Witness ==
    /\ scn.name = "nested" /\ scn.d2 = "ebIn" /\ Quiet
    /\ Count("h1") = 1 /\ Count("h2") = 1 /\ Count("B") = 1

RECURSIVE LastA(_)
LastA(i) == IF i = 0 THEN Undef ELSE IF log[i].id = "A" THEN log[i].in ELSE LastA(i - 1)

\* C7: finally(cleanup, action) run with x runs cleanup with x when action
\* succeeds and when it fails; on success what follows receives the output
\* of action, not of cleanup; on failure cleanup is over before the handler
\* of the enclosing catch is invoked.
C7_FinallyRunsCleanup ==
    scn.name = "finally" =>
        \A i \in 1..Len(log) :
            /\ log[i].id = "C" => log[i].in = LastA(i)
            /\ log[i].id = "K" => (log[i].in = V("out") /\ log[i - 1].id = "C" /\ log[i - 2].id = "B")
            /\ log[i].id = "h1" => (log[i - 1].id = "C" /\ log[i - 2].id = "raise")
            /\ (log[i].id \in {"B", "raise"} /\ i < Len(log)) => log[i + 1].id = "C"

C7_Witness ==
    /\ scn.name = "finally" /\ scn.d2 = "raiseUnless" /\ scn.d1 = "resume" /\ Quiet
    /\ \E i, j \in 2..Len(log) :
          /\ log[i].id = "h1" /\ log[i - 1] = Entry("C", V("x"))
          /\ log[j].id = "K" /\ log[j - 1] = Entry("C", V("v"))

\* C8: when the handler of a catch around finally(cleanup, action) calls
\* err.resume(v), action is run again from its first step with v, under
\* the same finally (its cleanup runs again), and not the step after the
\* raise site.
C8_ResumeReentersFinally ==
    (scn.name = "finally" /\ scn.d1 = "resume") =>
        \A i \in 1..Len(log) :
            /\ (log[i].id = "h1" /\ i < Len(log)) => log[i + 1] = Entry("A", V("v"))
            /\ (log[i].id = "C" /\ i > 4 /\ log[i - 4].id = "h1") => log[i].in = V("v")

C8_Witness ==
    /\ scn.name = "finally" /\ scn.d1 = "resume"
    /\ \E i \in 1..(Len(log) - 4) :
          /\ log[i].id = "h1"
          /\ log[i + 1] = Entry("A", V("v"))
          /\ log[i + 4] = Entry("C", V("v"))

\* C9: a host exception thrown by user code in an action of any arity
\* reaches the failure continuation once, as an IOError whose error is the
\* exception and whose input is the input at that point; the success
\* continuation is not invoked.
C9_HostExceptionIsIOError ==
    scn.name = "throw" =>
        /\ Count("K") = 0
        /\ Count("F") <= 1
        /\ Quiet => Count("F") = 1
        /\ \A i \in 1..Len(log) :
              log[i].id = "F" => log[i].in = ErrSummary("IOError", V("boom"), V("x"))

\* C10: callers sharing atomic(a): at most one invocation of a has started
\* and not yet completed, and a is never started while another invocation
\* is in flight.
C10_AtomicSerializes == InFlight <= 1 /\ ~overlap

C10_Witness ==
    /\ InFlight = 1
    /\ atom[1].busy
    /\ Len(atom[1].arr) >= kBufferCapacity - 1

\* C11: after any sequence of submissions to atomic(a) the number of entries
\* waiting in its buffer never exceeds kBufferCapacity.
C11_BufferBounded ==
    \A i \in AtomIds : Len(atom[i].arr) <= kBufferCapacity

\* doit is about to run for a submission that finds the instance busy and
\* its buffer full.
SubmitsWhenFull ==
    /\ Applying("doit")
    /\ atom[Head1.a.id].busy
    /\ kBufferCapacity # 0
    /\ Len(atom[Head1.a.id].arr) + 1 >= kBufferCapacity

\* C12: a submission that finds atomic(a) busy and its buffer full is not
\* enqueued; its only effect is the call of the submitter's failure
\* continuation with a PauseCondition.
C12_FullNotEnqueued ==
    [][SubmitsWhenFull =>
          /\ atom'[Head1.a.id].arr = atom[Head1.a.id].arr
          /\ stack' # <<>>
          /\ stack'[1].op = "call"
          /\ stack'[1].a = Head1.f
          /\ stack'[1].in.t = "PauseCondition"]_vars

\* The generators a scenario starts.
GenIds == 1..2

Started(g) == g <= Len(gens)

Callers == 1..MaxSubmits

KId(k) == "K" \o ToString(k)

\* C14: callers sharing one atomic action or pipeline: the success
\* continuation of the caller that submitted input k receives the output
\* computed from k (the stages pass their input on), at most once, and
\* never the output of another caller's input.
C14_OwnOutput ==
    scn.name \in {"atomic", "pipeline"} =>
        \A k \in Callers :
            /\ Count(KId(k)) <= 1
            /\ \A i \in 1..Len(log) : log[i].id = KId(k) => log[i].in = V(ToString(k))

\* Both stages wait for the outside world; the first stage took up the
\* second caller's input before the first caller got its output, and the
\* first two callers have their outputs.
C14_Witness ==
    /\ scn = Scn("pipeline", 3, "async", 3, "async")
    /\ Count(KId(1)) = 1
    /\ Count(KId(2)) = 1
    /\ \E i, j \in 1..Len(log) :
          /\ i < j
          /\ log[i] = Entry("a", V("2"))
          /\ log[j].id = KId(1)

\* What branch k of the scenario reports.
Reported(k) ==
    IF scn.kinds[k] \in Succeeds THEN V("r" \o ToString(k)) ELSE V("e" \o ToString(k))

\* x is the value or the error that branch k reported.
IsReportOf(x, k) ==
    IF scn.kinds[k] = "raise" THEN x.t = "IOError" /\ x.error = Reported(k)
    ELSE x = Reported(k)

\* C18: the array fork delivers has one entry per action, and entry i is the
\* success value or the error of action i.
C18_ForkArrayByPosition ==
    scn.name = "fork" =>
        \A i \in 1..Len(log) :
            log[i].id = "K" =>
                /\ log[i].in.t = "results"
                /\ DOMAIN log[i].in.at = 0..(Len(scn.kinds) - 1)
                /\ \A k \in 1..Len(scn.kinds) : IsReportOf(log[i].in.at[k - 1], k)

\* The continuations fork or any was given have been invoked this often.
Continued == Count("K") + Count("F")

\* C19: fork invokes exactly one continuation exactly once, after all its
\* branches have reported: success if one succeeded, failure with a branch's
\* error if all failed.
C19_ForkContinuesOnce ==
    scn.name = "fork" =>
        /\ Continued <= 1
        /\ Continued = 1 =>
              /\ joins[1].countUp + joins[1].errUp = Len(scn.kinds)
              /\ Count("K") = 1 <=> \E k \in 1..Len(scn.kinds) : scn.kinds[k] \in Succeeds
              /\ \A i \in 1..Len(log) :
                    log[i].id = "F" => \E k \in 1..Len(scn.kinds) : IsReportOf(log[i].in, k)
        /\ Quiet => Continued = 1

\* The first output that arrived at the join of any.
FirstJoined == log[CHOOSE i \in 1..Len(log) :
                        log[i].id = "join" /\ \A h \in 1..(i - 1) : log[h].id # "join"].in

\* C20: any invokes success at most once, with the output of the first branch
\* to succeed; failure only if every branch failed; never both.
C20_AnyFirstWins ==
    scn.name = "any" =>
        /\ Count("K") <= 1
        /\ \A i \in 1..Len(log) : log[i].id = "K" => log[i].in = FirstJoined
        /\ Count("F") > 0 => \A k \in 1..Len(scn.kinds) : scn.kinds[k] \in Failing
        /\ ~(Count("K") > 0 /\ Count("F") > 0)

\* Two branches succeeded one after the other and success was invoked.
C20_Witness ==
    /\ scn.name = "any"
    /\ Count("join") = 2
    /\ Count("K") = 1
    /\ Quiet

\* Log entries of a value entering the channel and of a value received.
IsSent(e) == e.id \in {"send", "handed"}
IsRecv(e) == e.id \in {"R1", "R2"}

\* The send actions and the recv actions that have run; a recv that ran has
\* delivered, or its waiter is parked, or its delivery is due at a tick.
SendRun == Cardinality({i \in 1..Len(log) : IsSent(log[i])})
RecvRun == Cardinality({i \in 1..Len(log) : IsRecv(log[i])}) + Len(chans.waiters)

\* C15: every value delivered to a receiver was sent before, no value is
\* delivered twice, and when the tasks have come to rest with at least as
\* many recv as send actions run, every value sent has been delivered.
C15_ChannelPairing ==
    /\ \A i \in 1..Len(log) :
          IsRecv(log[i]) =>
              /\ \E h \in 1..(i - 1) : IsSent(log[h]) /\ log[h].in = log[i].in
              /\ \A h \in 1..Len(log) : (IsRecv(log[h]) /\ log[h].in = log[i].in) => h = i
    /\ (Quiet /\ RecvRun >= SendRun) =>
          \A i \in 1..Len(log) :
              IsSent(log[i]) => \E h \in 1..Len(log) : IsRecv(log[h]) /\ log[h].in = log[i].in

\* One value was handed to a parked receiver, another was queued, and both
\* have been delivered.
C15_Witness ==
    /\ Quiet
    /\ Count("handed") = 1
    /\ Count("send") = 1
    /\ Count("R1") + Count("R2") = 2

\* C16: a value that send handed to a parked receiver reaches the steps
\* after the recv only after the steps after the send have run with it.
C16_ReceiverAfterSender ==
    \A i \in 1..Len(log) :
        (IsRecv(log[i]) /\ \E h \in 1..Len(log) : log[h].id = "handed" /\ log[h].in = log[i].in)
            => \E j \in 1..(i - 1) : log[j].id \in {"S1", "S2"} /\ log[j].in = log[i].in

\* Task k has received v.
Got(k, v) == \E i \in 1..Len(log) : log[i].id = "R" \o ToString(k) /\ log[i].in = v

\* C17: with A = [send, recv] and B = [recv, send] on one channel, when both
\* have been started and all has come to rest A has received what B sent and
\* B what A sent.
C17_Rendezvous ==
    \A a, b \in 1..2 :
        (/\ scn.tasks[a] = <<"send", "recv">>
         /\ scn.tasks[b] = <<"recv", "send">>
         /\ submitted = Runs(scn)
         /\ Quiet)
            => Got(a, Msg(b, 2)) /\ Got(b, Msg(a, 1))

\* Nothing is running, nothing is queued and no timer is set.
AtRest == Quiet /\ cells.timers = <<>>

BranchIds == {"b" \o ToString(k) : k \in 1..(MaxBranches + 1)}

\* C21: once what follows the alt has run, no alternative is started any
\* more, and an error raised by what follows reaches the failure
\* continuation around the alt.
C21_AltIsFirstSuccess ==
    scn.name = "alt" =>
        /\ \A i \in 1..Len(log) : \A j \in (i + 1)..Len(log) :
              log[i].id = "rest" => log[j].id \notin BranchIds
        /\ \A i \in 1..Len(log) :
              (log[i].id = "F" /\ Count("rest") > 0) =>
                  log[i].in.t = "IOError" /\ log[i].in.error = V("boom")

\* C22: alt starts its alternatives in list order, each with the input of
\* the alt and never two at a time; when all have failed (or there is none)
\* the failure continuation around the alt receives an error.
C22_AltInOrder ==
    scn.name = "alt" =>
        /\ IsPrefix(Only(log, BranchIds),
                    [k \in 1..Len(scn.kinds) |-> Entry("b" \o ToString(k), V("x"))])
        /\ Len(pending) <= 1
        /\ (AtRest /\ \A k \in 1..Len(scn.kinds) : scn.kinds[k] \in Failing) =>
              /\ Count("K") = 0
              /\ Only(log, {"F"}) = <<Entry("F", ErrSummary("IOError", V("alt"), V("x")))>>

\* Two or more alternatives have all failed.
C22_Witness ==
    /\ scn.name = "alt"
    /\ Len(scn.kinds) >= 2
    /\ \A k \in 1..Len(scn.kinds) : scn.kinds[k] \in Failing
    /\ Count("b" \o ToString(Len(scn.kinds))) = 1
    /\ Count("F") = 1
    /\ AtRest

HandlerSucceeds == {"ret", "cb", "IO.forgive"}

\* C23: the handler of a try runs only when the action failed, and then with
\* the action's error; when it succeeds what follows the try runs, when it
\* fails the failure continuation around the try is invoked.
C23_TryHandler ==
    scn.name = "try" =>
        /\ scn.kinds[1] \in Succeeds => Count("h") = 0
        /\ \A i \in 1..Len(log) : log[i].id = "h" => IsReportOf(log[i].in, 1)
        /\ (AtRest /\ scn.kinds[1] \in Failing /\ scn.d2 \in HandlerSucceeds) =>
              (Count("F") = 0 /\ (scn.after = "none" => Count("K") = 1))
        /\ (AtRest /\ scn.kinds[1] \in Failing /\ scn.d2 \notin HandlerSucceeds) =>
              (Count("K") = 0 /\ Count("F") = 1)

\* The log entry of a watchdog that fired before its action had succeeded.
WatchdogFirst == Entry("watchdog", V("first"))

Timed == scn.name \in {"timeout", "retry"}

\* C24: a watchdog that fires before its action has completed runs ontimeout
\* once, with the restart function as input, and a success of the action
\* that comes later does not reach the continuation after the timeout.
C24_WatchdogRunsOntimeout ==
    Timed =>
        /\ \A i \in 1..Len(log) : log[i].id = "ot" => log[i].in = [t |-> "restartFn"]
        /\ Count("ot") <= Cardinality({i \in 1..Len(log) : log[i] = WatchdogFirst})
        /\ (stack = <<>> /\ ticks = <<>>) =>
              Count("ot") = Cardinality({i \in 1..Len(log) : log[i] = WatchdogFirst})
        /\ scn.name = "timeout" /\ scn.d2 # "retryOnce" =>
              \A i \in 1..Len(log) : \A k \in (i + 1)..Len(log) :
                  log[i] = WatchdogFirst => log[k].id # "K"

\* The watchdog fired first, ontimeout ran, and the action succeeded later.
C24_Witness ==
    /\ scn.name = "timeout" /\ scn.d1 = "later"
    /\ Count("ot") = 1
    /\ \E i \in 1..Len(log) : log[i] = WatchdogFirst
    /\ Count("K") = 0
    /\ AtRest

\* The first of K, F and ontimeout to run was one of ids: the action
\* completed, by success or by failure, before any watchdog ran ontimeout.
FirstIs(ids) ==
    \E i \in 1..Len(log) :
        log[i].id \in ids /\ \A h \in 1..(i - 1) : log[h].id \notin {"K", "F", "ot"}

\* C25 as stated: when the action completes, by success or by failure,
\* before the watchdog fires, ontimeout is never run and the outer
\* continuations are invoked at most once.
C25_WatchdogSuppressed ==
    (scn.name = "timeout" /\ FirstIs({"K", "F"})) =>
        (Count("ot") = 0 /\ Continued <= 1)

\* C25: when the action succeeds before the watchdog fires, ontimeout is
\* never run and the outer continuations are invoked at most once; when it
\* fails, the failure continuation is invoked and the watchdog still runs
\* ontimeout when it fires.
C25_SuppressedBySuccess ==
    scn.name = "timeout" =>
        /\ FirstIs({"K"}) => (Count("ot") = 0 /\ Continued <= 1)
        /\ (FirstIs({"F"}) /\ AtRest) =>
              (Count("ot") >= 1 /\ \E i \in 1..Len(log) : log[i] = WatchdogFirst)

\* The action failed, and then the watchdog fired and ran ontimeout.
C25_Witness ==
    /\ scn.name = "timeout" /\ scn.d1 = "laterFail"
    /\ FirstIs({"F"})
    /\ Count("ot") = 1
    /\ AtRest

\* C26 as stated: the retried timeout of the delayed supply ends with "ok"
\* delivered after the timeout and the counter at 1.
C26_RetryDeliversOk ==
    (scn.name = "retry" /\ AtRest) =>
        (Only(log, {"K"}) = <<Entry("K", V("ok"))>> /\ cells.counter = 1)

\* C26: the retried timeout of the delayed supply times out a second time:
\* "ok" is never delivered after the timeout, and it ends with the counter
\* at 2 and neither outer continuation invoked.
C26_RetryTimesOutAgain ==
    scn.name = "retry" =>
        /\ Count("K") = 0
        /\ cells.counter <= 2
        /\ AtRest => (cells.counter = 2 /\ Count("F") = 0)

\* Both watchdogs have fired and both delays have run out.
C26_Witness ==
    /\ scn.name = "retry"
    /\ Cardinality({i \in 1..Len(log) : log[i] = WatchdogFirst}) = 2
    /\ cells.counter = 2
    /\ AtRest

\* The later tasks of a sync scenario, and how many times its now task has
\* continued.
Laters == {k \in 1..Len(scn.tasks) : scn.tasks[k] = "later"}

NowContinued ==
    Cardinality({i \in 1..Len(log) : \E k \in 1..Len(scn.tasks) :
                    scn.tasks[k] = "now" /\ log[i].id = "N" \o ToString(k)})

\* C27: for sync(N), now continues once, and only after N later actions
\* have run; when every task has been started and at least N of them are
\* later actions, now has continued, whatever the order of the tasks; and
\* every later task has continued.
C27_SyncAnyOrder ==
    scn.name = "sync" =>
        /\ NowContinued <= 1
        /\ NowContinued = 1 => cells.countDown <= 0
        /\ (Quiet /\ submitted = Runs(scn)) =>
                /\ Cardinality(Laters) >= IO_sync(scn.n1).countDown => NowContinued = 1
                /\ \A k \in Laters : Count("L" \o ToString(k)) = 1

\* The tasks of an interruption scenario that pass mark, and what the
\* failure observer of task k is given by an interrupt.
Marked == {k \in 1..Len(scn.tasks) : scn.tasks[k] \in {"mark", "self"}}

Interrupted(k) ==
    Entry("F" \o ToString(k),
          [t |-> "IOError", error |-> V("interrupted"), input |-> [t |-> "interruption"]])

\* C28: however many times interrupt is run, a sequence that passed mark is
\* given the 'interrupted' condition at most once, and nothing else reaches
\* its failure continuation; once everything has run, it has been given the
\* condition exactly once if an interrupt ran after its mark (its handler
\* has left the table) and not at all otherwise.
C28_InterruptIdempotent ==
    scn.name = "interruption" =>
        \A k \in Marked :
            /\ Only(log, {"F" \o ToString(k)}) \in {<<>>, <<Interrupted(k)>>}
            /\ (Quiet /\ submitted = Runs(scn)) =>
                    (Count("F" \o ToString(k)) = 1
                        <=> ~\E i \in 1..Len(cells.handlers) :
                                cells.handlers[i].input = V(ToString(k)))

\* A sequence passed mark and interrupt was then run twice.
C28_Witness ==
    /\ scn.name = "interruption" /\ scn.tasks = <<"mark", "interrupt", "interrupt">>
    /\ Quiet /\ submitted = Runs(scn)
    /\ Only(log, {"F1"}) = <<Interrupted(1)>>
    /\ Count("K1") = 1
    /\ cells.handlers = <<>>

\* The cleanups that have run, in the order they ran.
CleanupsRun == [i \in 1..Len(Only(log, {"h1", "h2"})) |-> Only(log, {"h1", "h2"})[i].id]

\* The interruptible action has completed.
ActCompleted == \E i \in 1..Len(log) : log[i].id \in {"K" \o ToString(k) : k \in 1..MaxTasks + 1}

\* C29: interruptible(builder) gives an action; its interrupt action runs
\* the cleanups in the order they were installed, each at most once in all;
\* none runs once the action has completed; and when an interrupt has run
\* and no cleanup did, the action had completed.
C29_CleanupsInOrderOnce ==
    scn.name = "interruptible" =>
        /\ cells.thrown = Undef
        /\ IsPrefix(CleanupsRun, [i \in 1..scn.n1 |-> "h" \o ToString(i)])
        /\ \A i, j \in 1..Len(log) :
                (i < j /\ log[i].id \in {"K" \o ToString(k) : k \in 1..MaxTasks + 1})
                    => log[j].id \notin {"h1", "h2"}
        /\ (Quiet /\ submitted = Runs(scn) /\ scn.n1 > 0
                  /\ \E k \in 1..Len(scn.tasks) : scn.tasks[k] = "interrupt")
                => (CleanupsRun # <<>> \/ ActCompleted)

\* What the success observer is given when spray(xs) has delivered the
\* first n elements.
Delivered(n) == [i \in 1..n |-> Entry("K", V(ToString(i)))]

PendingTicks ==
    Cardinality({i \in DOMAIN cells.timers :
                    cells.timers[i].op = "delayed" /\ cells.timers[i].a.t = "tick"})
    + Cardinality({i \in DOMAIN ticks : ticks[i].op = "delayed" /\ ticks[i].a.t = "tick"})

\* A clock that ticked was stopped, another input was ignored, and the tick
\* that was still waiting has come and gone without a delivery.
C32_Witness ==
    /\ scn.name = "clock"
    /\ scn.inputs = <<"start", "stop", "other">>
    /\ submitted = 3
    /\ Count("K") >= 1
    /\ ~cells.ticking
    /\ cells.timers = <<>> /\ ticks = <<>> /\ stack = <<>>

\* C33: no activation of a debounce fails, and once the activations and the
\* timers are over the input of the last activation has been forwarded, as
\* the last forwarded input and once.
C33_LastInputForwarded ==
    scn.name = "debounce" =>
        /\ \A i \in 1..Len(log) : log[i].id # "F"
        /\ AtRest /\ submitted = scn.runs =>
              LET ks == Only(log, {"K"})
              IN  /\ ks # <<>>
                  /\ ks[Len(ks)].in = Summary(V(ToString(scn.runs)))
                  /\ \A i \in 1..(Len(ks) - 1) : ks[i].in # ks[Len(ks)].in

\* C31: a generator with a delay produces its k-th value no earlier than
\* (k - 1) * delay_ms after it was started at time 0.
C31_DelayBetweenValues ==
    \A g \in DOMAIN gens :
        gens[g].delay_ms > 0 => (gens[g].i - 1) * gens[g].delay_ms <= cells.now

\* C35: a generator produces at most kBufferCapacity values in one
\* synchronous stretch.
C35_BurstWithinCapacity ==
    \A g \in DOMAIN gens : gens[g].burst <= kBufferCapacity

\* The generator produced eight values in its first stretch and went on
\* through M.delay; the ninth value paused it, and after it was resumed it
\* produced the tenth in a stretch of its own.
C35_Witness ==
    /\ scn.name = "gen"
    /\ gens # <<>>
    /\ gens[1].i = kBufferCapacity + 2
    /\ gens[1].genCount = kBufferCapacity - 2
    /\ gens[1].burst = 1
    /\ ~gens[1].paused

\* C40: whatever start, stop and reset inputs a clock receives, at most one
\* tick waits for its time.
C40_OneTickPending == PendingTicks <= 1

\* C32: while a clock is not ticking no tick is delivered to K, and an input
\* other than start, stop and reset changes nothing and delivers nothing.
C32_NoTickWhileStopped ==
    /\ [][~cells.ticking => Count("K")' = Count("K")]_vars
    /\ [][Applying("clock_") /\ Head1.in = V("other")
            => cells' = cells /\ ticks' = ticks /\ log' = log]_vars

\* C39: for a channel, the item queue and the waiter queue are never both
\* non-empty, and an item that is in the queue was sent when no receiver
\* was parked (it was not handed to one).
C39_QueueOrWaitersEmpty ==
    /\ chans.queue = <<>> \/ chans.waiters = <<>>
    /\ chans.queue # <<>> => ~\E i \in 1..Len(log) :
            log[i].id = "handed" /\ log[i].in = Summary(chans.queue[Len(chans.queue)])

\* A parked receiver was handed an item, and a later item is queued with
\* no receiver parked.
C39_Witness ==
    /\ Count("handed") >= 1
    /\ chans.queue # <<>>
    /\ chans.waiters = <<>>

\* The ids in log of the entries with an id in ids, in order.
IdsOf(ids) == [i \in 1..Len(Only(log, ids)) |-> Only(log, ids)[i].id]

\* The inputs a has been started with, in order.
Dispatched == [i \in 1..Len(Only(log, {"a"})) |-> Only(log, {"a"})[i].in]

\* C36: when every caller has submitted its input to atomic(a) and every
\* invocation of a has answered, a has been started with every input.
C36_EveryInputDispatched ==
    (scn.name = "serial" /\ Quiet /\ submitted = Runs(scn)) =>
        Dispatched = [k \in 1..Runs(scn) |-> V(ToString(k))]

\* C37: atomic(a) starts a with the inputs in the order they were
\* submitted, and the callers' success continuations receive their outputs
\* in that order.
C37_OutputsInSubmissionOrder ==
    scn.name = "serial" =>
        /\ IsPrefix(Dispatched, [k \in 1..Runs(scn) |-> V(ToString(k))])
        /\ \A i, j \in 1..Len(IdsOf({KId(k) : k \in 1..Runs(scn)})) :
              i < j => \E k1, k2 \in 1..Runs(scn) :
                          /\ k1 < k2
                          /\ IdsOf({KId(k) : k \in 1..Runs(scn)})[i] = KId(k1)
                          /\ IdsOf({KId(k) : k \in 1..Runs(scn)})[j] = KId(k2)

\* The calls ExM.call has handed to nextTick that have not run yet.
DeferredCalls == Cardinality({i \in 1..Len(ticks) : ticks[i].op = "call"})

\* C34 as stated: M.depth is never negative and never above maxdepth.
C34_DepthWithinMaxdepth == depth \in 0..maxdepth

\* C34: M.depth is never negative; ExM.call calls the action at once only
\* when it finds M.depth below maxdepth, and otherwise hands the call to
\* nextTick; M.depth itself is raised by every call, deferred ones too, so
\* it exceeds maxdepth by at most the number of deferred calls.
C34_CallsAtOnceBelowMaxdepth ==
    /\ [](depth >= 0 /\ depth <= maxdepth + DeferredCalls)
    /\ [][(stack # <<>> /\ Head1.op = "call") =>
            /\ depth' = depth + 1
            /\ IF depth < maxdepth
               THEN ticks' = ticks /\ stack'[1].op = "apply"
               ELSE /\ Len(ticks') = Len(ticks) + 1
                    /\ ticks'[Len(ticks')].a = Head1.a
                    /\ Len(stack') < Len(stack)]_vars

\* Several calls were deferred in one turn and M.depth is above maxdepth.
C34_Witness ==
    /\ scn.name = "spray"
    /\ depth > maxdepth + 1
    /\ DeferredCalls >= 2

\* C38: when the action of finally(cleanup, action) succeeds, cleanup runs
\* once and never again, also when the step after the finally fails; that
\* failure reaches the surrounding failure continuation once.
C38_CleanupOnce ==
    (scn.name = "finallyThen" /\ scn.kinds[1] \in Succeeds) =>
        /\ Count("C") <= 1
        /\ Count("F") <= 1
        /\ Quiet => /\ Count("C") = 1
                    /\ scn.after = "raise" => Count("F") = 1

====
